---- MODULE Spec2Model ----
(***************************************************************************)
(* Model of the monitor scheduler (monitor-scheduler/src/scheduler.rs,     *)
(* main.rs) and of the validation adapter of the script engine             *)
(* (monitor-scripting/src/engine.rs).                                      *)
(*                                                                         *)
(* Time is counted in whole seconds.  Every check task carries the number  *)
(* of seconds that passed since its start_time (Instant::now()).           *)
(***************************************************************************)
EXTENDS Integers, Sequences, FiniteSets, TLC

\* ---------------------------------------------------------------- bounds
MaxChecks == 2     \* firings followed in one behaviour
MaxCalls == 2      \* start() / load_and_schedule_monitors() calls of the owner
MaxElapsed == 3    \* seconds a check's clock is followed (saturates there)
Grace == 1         \* the "small grace" of the timing claims, in seconds
MaxUpdates == 1    \* updates of table monitors by the API
MaxEngines == 2    \* script engines built in one behaviour
MaxDepth == 2      \* nested calls of the conversion the stack of the thread holds
MaxSandboxCalls == 2  \* execute_script calls on them

\* ---------------------------------------------------------------- values
None == << >>
Some(x) == << x >>
IsSome(o) == Len(o) = 1
Unwrap(o) == o[1]

\* serde_json::Value.  Of an Object the model keeps the number of keys, the
\* "__type" tag ("" when the object has none) and, where they are followed,
\* the other keys with their values, as pairs.
JsonBool(b) == [kind |-> "Bool", bool |-> b, num |-> 0, str |-> "", len |-> 0, fields |-> << >>]
JsonNull == [kind |-> "Null", bool |-> FALSE, num |-> 0, str |-> "", len |-> 0, fields |-> << >>]
JsonNumber(n) == [kind |-> "Number", bool |-> FALSE, num |-> n, str |-> "", len |-> 0, fields |-> << >>]
JsonString(s) == [kind |-> "String", bool |-> FALSE, num |-> 0, str |-> s, len |-> 0, fields |-> << >>]
JsonArray(n) == [kind |-> "Array", bool |-> FALSE, num |-> 0, str |-> "", len |-> n, fields |-> << >>]
JsonObject(tag, n) == [kind |-> "Object", bool |-> FALSE, num |-> 0, str |-> tag, len |-> n, fields |-> << >>]
\* json!({"__type": tag, key: value, ...}).
JsonTagged(tag, fields) == [kind |-> "Object", bool |-> FALSE, num |-> 0, str |-> tag, len |-> Len(fields) + 1, fields |-> fields]
\* json!({key: value, ...}).
JsonObjectWith(fields) == [kind |-> "Object", bool |-> FALSE, num |-> 0, str |-> "", len |-> Len(fields), fields |-> fields]

MsPerSecond == 1000

MonitorIds == {"m1", "m2", "m3", "m4"}
Codes == {200, 404}                   \* status codes the probed server answers
Bodies == {"ok"}                      \* body texts the probed server answers
TransportErrors == {"connection refused"}
Statuses == {"success", "failure", "error", "timeout"}

ScriptStatusBelow500 == "context.status_code < 500"
ScriptThrows == "throw new Error('down')"

\* The rows of table monitors (models.rs Monitor); column enabled is the
\* variable of that name.
MonitorRow(id) ==
    CASE id = "m1" -> [id |-> "m1", expected_status |-> 404, timeout |-> 2,
                       interval |-> 1, script |-> None,
                       method |-> "GET", headers |-> None]
      [] id = "m2" -> [id |-> "m2", expected_status |-> 200, timeout |-> 1,
                       interval |-> 2, script |-> Some(ScriptStatusBelow500),
                       method |-> "GET", headers |-> None]
      [] id = "m3" -> [id |-> "m3", expected_status |-> 200, timeout |-> 1,
                       interval |-> 60, script |-> None,
                       method |-> "GET", headers |-> None]
      [] id = "m4" -> [id |-> "m4", expected_status |-> 200, timeout |-> 1,
                       interval |-> 3, script |-> Some(ScriptThrows),
                       method |-> "GET", headers |-> None]

VARIABLES
    enabled,      \* monitors.enabled, per monitor id
    ticking,      \* the JobScheduler was started and not shut down
    stopped,      \* stop() has returned
    heartbeats,   \* "0/30" jobs added by start()
    jobs,         \* number of check jobs registered per monitor id
    calls,        \* start()/load calls made so far
    lastLoad,     \* the last load_and_schedule_monitors: its result
                  \* (none/ok/err) and the rows its SELECT returned
    checks,       \* the check tasks spawned so far, in firing order
    rows,         \* table monitor_results, in insertion order
    updates,      \* updates of table monitors made so far
    proc,         \* the scheduler process: running / exited
    cron,         \* one cron job against the wall clock: its interval, the
                  \* second of the minute, whether it fired in this second
    engine,       \* one call of ScriptEngine::execute_validation_script
    sandbox,      \* a ScriptEngine with its security policy, the globals of
                  \* the context of its last execute_script call, the
                  \* outcome of that call and of the call before it
    monitors,     \* table monitors: the other columns, per monitor id
    captured,     \* the Monitor values the closures of the jobs of a
                  \* monitor hold
    main,         \* the position of main.rs, what it has done so far and
                  \* the exit code of the process
    wallclock     \* the wall clock in seconds, one request followed against
                  \* it and one script that calls __checkTimeout()

vars == << enabled, ticking, stopped, heartbeats, jobs, calls, lastLoad,
           checks, rows, updates, proc, cron, engine, sandbox, monitors, captured, main, wallclock >>

schedVars == << ticking, stopped, heartbeats, jobs, calls, lastLoad >>

\* ---------------------------------------------------------------- cron
\* Job::new_async parses the expression "0/N * * * * *": the seconds field
\* takes a step between 1 and 59.
CronMin == 1
CronMax == 59
CronValid(interval) == interval >= CronMin /\ interval <= CronMax

SecondsPerMinute == 60

\* Mutant of cron_expression: "N/N * * * * *", the step also as the start.
cron_expression_from_step(interval) == [start |-> interval, step |-> interval]

\* Mutant of cron_expression: "N * * * * *", the interval as the one second
\* of the minute.
cron_expression_at_second(interval) == [start |-> interval, step |-> SecondsPerMinute]

\* format!("0/{} * * * * *", monitor.interval): the seconds field of the
\* expression, start/step; the other five fields are "*".
cron_expression(interval) == [start |-> 0, step |-> interval]

\* The seconds of a minute a seconds field start/step stands for: start,
\* start + step, ... up to the last second of the minute.
CronSeconds(expr) ==
    {s \in 0..(SecondsPerMinute - 1) :
        \E k \in 0..(SecondsPerMinute - 1) : s = expr.start + k * expr.step}

\* ---------------------------------------------------------------- results
\* Mutant of ResultCompleted: success for every code below 400 instead of
\* the monitor's expected_status.
ResultCompleted_below400(id, monitor, response_time, status_code, response_body) ==
    [id |-> id, monitor_id |-> monitor.id,
     status |-> IF status_code < 400 THEN "success" ELSE "failure",
     response_time |-> response_time,
     response_code |-> Some(status_code),
     response_body |-> Some(response_body),
     error_message |-> None]

\* Ok(Ok(response)) arm: status from the status code alone.
ResultCompleted(id, monitor, response_time, status_code, response_body) ==
    [id |-> id, monitor_id |-> monitor.id,
     status |-> IF status_code = monitor.expected_status
                THEN "success" ELSE "failure",
     response_time |-> response_time,
     response_code |-> Some(status_code),
     response_body |-> Some(response_body),
     error_message |-> None]

\* Ok(Err(e)) arm.
ResultTransportError(id, monitor, response_time, e) ==
    [id |-> id, monitor_id |-> monitor.id, status |-> "error",
     response_time |-> response_time, response_code |-> None,
     response_body |-> None, error_message |-> Some(e)]

\* Mutant of ResultTimeout: the timeout is recorded like a transport error.
ResultTimeout_as_error(id, monitor, response_time) ==
    [id |-> id, monitor_id |-> monitor.id, status |-> "error",
     response_time |-> response_time, response_code |-> None,
     response_body |-> None, error_message |-> Some("operation timed out")]

\* Err(_) arm: the tokio timeout elapsed.
ResultTimeout(id, monitor, response_time) ==
    [id |-> id, monitor_id |-> monitor.id, status |-> "timeout",
     response_time |-> response_time, response_code |-> None,
     response_body |-> None, error_message |-> Some("Request timeout")]

\* start_time.elapsed().as_millis() as i32: the low 32 bits of the
\* milliseconds, read as a signed number.  The product is taken on the two
\* halves of 16 bits of the seconds.
Half == 65536
ElapsedMillis(seconds) ==
    LET lo == (seconds % Half) * MsPerSecond
        low == lo % Half
        high == ((seconds \div Half) * MsPerSecond + lo \div Half) % Half
    IN  IF high >= Half \div 2 THEN (high - Half) * Half + low ELSE high * Half + low

\* The cron job and the script engine before they are used.
CronIdle == [interval |-> CronMin, second |-> 0, fired |-> FALSE, since |-> None, crossed |-> FALSE, gap |-> None]
EngineIdle == [pc |-> "idle", script |-> "", status_code |-> 0, elapsed |-> 0, depth |-> 0, host_error |-> None, result |-> None, validation |-> None]
SandboxIdle == [engines |-> 0, preset |-> "permissive", order |-> << >>, calls |-> 0, script |-> "", context_data |-> None, policies |-> None, context |-> None, raised |-> "", result |-> None, last |-> None, sameEngine |-> FALSE]

\* What the closure of a job holds: the Monitor built from a row of the
\* SELECT, with the value the row had in column enabled.
Captured(monitor, was_enabled) == [monitor |-> monitor, enabled |-> was_enabled]

\* main.rs when the scheduler is owned by another caller; the wall clock,
\* in seconds since 1970, before anything is followed against it.
MainDetached == [pc |-> "detached", started |-> FALSE, interrupted |-> FALSE, failed_at |-> None, exit_code |-> None]
WallClockStart == 1700000000
WallClockIdle ==
    [now |-> WallClockStart,
     request |-> [pc |-> "idle", issued_at |-> None, arm |-> "", checked_at |-> None],
     script |-> [pc |-> "idle", started_at |-> None, start_time |-> None, timeout_ms |-> None, called_at |-> None]]

\* ---------------------------------------------------------------- checks
InFlight(c) == c.pc \in {"send", "body", "insert"}
Returned(c) == c.pc \in {"ok", "err"}

\* Method::from_str: Ok for a text that is a method token (one or more of
\* the characters a token may hold), Err for any other text.
MethodTexts == {"GET", "POST", "get", "PURGE", "", "BAD METHOD", "GET\n"}
IsMethodToken(text) ==
    CASE text = "" -> FALSE
      [] text = "BAD METHOD" -> FALSE
      [] text = "GET\n" -> FALSE
      [] OTHER -> TRUE
parse(text) == IF IsMethodToken(text) THEN Some(text) ELSE None

\* unwrap_or on an Option.
unwrap_or(option, default) == IF IsSome(option) THEN Unwrap(option) ELSE default

\* Mutant of from_value_header_map: the entries whose value is a string,
\* whatever the other entries hold.
from_value_header_map_of_strings(value) ==
    IF value.kind = "Object"
    THEN Some({<< value.fields[i][1], value.fields[i][2].str >> :
                  i \in {j \in DOMAIN value.fields : value.fields[j][2].kind = "String"}})
    ELSE None

\* serde_json::from_value::<HashMap<String, String>>: Ok for an object whose
\* values are all strings, Err for any other value.
from_value_header_map(value) ==
    IF value.kind = "Object" /\ \A i \in DOMAIN value.fields : value.fields[i][2].kind = "String"
    THEN Some({<< value.fields[i][1], value.fields[i][2].str >> : i \in DOMAIN value.fields})
    ELSE None

\* The request execute_monitor_check builds: its method and its headers.
build_request(monitor) ==
    [method |-> unwrap_or(parse(monitor.method), "GET"),
     headers |-> IF IsSome(monitor.headers)
                 THEN unwrap_or(from_value_header_map(Unwrap(monitor.headers)), {})
                 ELSE {}]

NewCheck(monitor) ==
    [monitor |-> monitor, request |-> build_request(monitor), pc |-> "send", elapsed |-> 0,
     outcome |-> "pending", observed |-> None, bodyRead |-> "pending",
     response_time |-> 0, attempts |-> 0, result |-> None]

Init ==
    /\ enabled = [m \in MonitorIds |-> m \in {"m1", "m2"}]
    /\ updates = 0
    /\ ticking = FALSE
    /\ stopped = FALSE
    /\ heartbeats = 0
    /\ jobs = [m \in MonitorIds |-> 0]
    /\ calls = 0
    /\ lastLoad = [result |-> "none", rows |-> {}]
    /\ checks = << >>
    /\ rows = << >>
    /\ proc = "running"
    /\ cron = CronIdle
    /\ engine = EngineIdle
    /\ sandbox = SandboxIdle
    /\ monitors = [m \in MonitorIds |-> MonitorRow(m)]
    /\ captured = [m \in MonitorIds |-> IF jobs[m] > 0 THEN {Captured(MonitorRow(m), TRUE)} ELSE {}]
    /\ main = MainDetached
    /\ wallclock = WallClockIdle

\* ---------------------------------------------------------------- main
\* main.rs at its first statement; the exit code of a process whose main
\* returns Err.
MainAtEntry == [pc |-> "config", started |-> FALSE, interrupted |-> FALSE, failed_at |-> None, exit_code |-> None]
ExitFailure == 1

\* The statements of main before scheduler.start(), in their order, and
\* the statements that end main with ? when they return Err.
MainSetup == << "config", "pool", "migrations", "new", "start" >>
MainFallible == {"config", "pool", "migrations", "new", "start", "load", "load_failed", "ctrl_c", "stop"}

\* Mutant of MainAllows: a call of the scheduler at any position of main.
MainAllows_anywhere(call) == TRUE

\* Whether the owner of the scheduler makes this call now: main.rs at the
\* statement that makes it, or another owner at any time.
MainAllows(call) == main.pc \in {"detached", call}

\* main after a call it made has returned Ok, or Err for the load.
MainAfter(call, ok) ==
    IF main.pc # call THEN main
    ELSE CASE call = "start" -> [main EXCEPT !.pc = "load", !.started = TRUE]
           [] call = "load" -> [main EXCEPT !.pc = IF ok THEN "ctrl_c" ELSE "load_failed"]
           [] call = "stop" -> [main EXCEPT !.pc = "return"]
           [] call = "return" -> [main EXCEPT !.pc = "exited", !.exit_code = Some(0)]

\* ---------------------------------------------------------------- scheduler
\* start(): adds the "0/30" job, then starts the JobScheduler.
start ==
    /\ proc = "running" /\ ~stopped /\ calls < MaxCalls
    /\ MainAllows("start")
    /\ heartbeats' = heartbeats + 1
    /\ ticking' = TRUE
    /\ calls' = calls + 1
    /\ main' = MainAfter("start", TRUE)
    /\ UNCHANGED << enabled, stopped, jobs, lastLoad, checks, rows, updates,
                   proc >>
    /\ UNCHANGED << cron, engine, sandbox, monitors, captured, wallclock >>

\* get_enabled_monitors(): SELECT * FROM monitors WHERE enabled = true.
get_enabled_monitors == {m \in MonitorIds : enabled[m]}

\* The orders in which the SELECT (no ORDER BY) may return the rows of S.
RowOrders(S) ==
    {o \in [1..Cardinality(S) -> S] : \A m \in S : \E i \in DOMAIN o : o[i] = m}

\* schedule_monitor(monitor): Err when the cron expression is refused,
\* otherwise one more job for the monitor.
schedule_monitor(js, monitor) ==
    IF CronValid(monitor.interval)
    THEN [ok |-> TRUE, jobs |-> [js EXCEPT ![monitor.id] = @ + 1]]
    ELSE [ok |-> FALSE, jobs |-> js]

\* The for loop of load_and_schedule_monitors from position i on:
\* schedule_monitor(monitor).await? returns at the first Err.
RECURSIVE schedule_all(_, _, _)
schedule_all(js, order, i) ==
    IF i > Len(order)
    THEN [ok |-> TRUE, jobs |-> js]
    ELSE LET r == schedule_monitor(js, monitors[order[i]])
         IN  IF r.ok THEN schedule_all(r.jobs, order, i + 1) ELSE r

load_and_schedule_monitors(order) ==
    /\ proc = "running" /\ ~stopped /\ calls < MaxCalls
    /\ MainAllows("load")
    /\ LET r == schedule_all(jobs, order, 1)
       IN  /\ jobs' = r.jobs
           /\ main' = MainAfter("load", r.ok)
           /\ lastLoad' = [result |-> IF r.ok THEN "ok" ELSE "err",
                            rows |-> {order[i] : i \in DOMAIN order}]
           /\ captured' = [m \in MonitorIds |->
                              IF r.jobs[m] > jobs[m]
                              THEN captured[m] \cup {Captured(monitors[m], enabled[m])}
                              ELSE captured[m]]
    /\ calls' = calls + 1
    /\ UNCHANGED << enabled, ticking, stopped, heartbeats, checks, rows, updates,
                   proc >>
    /\ UNCHANGED << cron, engine, sandbox, monitors, wallclock >>

\* Mutant of stop: returns Ok without shutting the JobScheduler down.
stop_without_shutdown ==
    /\ proc = "running" /\ ~stopped
    /\ stopped' = TRUE
    /\ UNCHANGED << enabled, ticking, heartbeats, jobs, calls, lastLoad, checks,
                   rows, updates, proc >>
    /\ UNCHANGED << cron, engine, sandbox, monitors, captured, main, wallclock >>

\* stop(): scheduler.shutdown(); nothing else is awaited.
stop ==
    /\ proc = "running" /\ ~stopped
    /\ MainAllows("stop")
    /\ ticking' = FALSE
    /\ stopped' = TRUE
    /\ main' = MainAfter("stop", TRUE)
    /\ UNCHANGED << enabled, heartbeats, jobs, calls, lastLoad, checks, rows,
                   updates, proc >>
    /\ UNCHANGED << cron, engine, sandbox, monitors, captured, wallclock >>

\* main returns after stop(): the runtime is dropped and every task that is
\* still suspended at an await is dropped with it.
Cancel(c) == IF InFlight(c) THEN [c EXCEPT !.pc = "cancelled"] ELSE c

main_returns ==
    /\ proc = "running" /\ stopped
    /\ MainAllows("return")
    /\ proc' = "exited"
    /\ checks' = [i \in DOMAIN checks |-> Cancel(checks[i])]
    /\ main' = MainAfter("return", TRUE)
    /\ UNCHANGED << enabled, rows, updates >>
    /\ UNCHANGED schedVars
    /\ UNCHANGED << cron, engine, sandbox, monitors, captured, wallclock >>

\* Config::from_env, create_pool, run_migrations or MonitorScheduler::new
\* returns Ok: main goes on to its next statement.
main_proceeds ==
    /\ proc = "running"
    /\ \E i \in 1..(Len(MainSetup) - 1) :
          /\ main.pc = MainSetup[i]
          /\ main' = [main EXCEPT !.pc = MainSetup[i + 1]]
    /\ UNCHANGED << enabled, checks, rows, updates, proc >>
    /\ UNCHANGED schedVars
    /\ UNCHANGED << cron, engine, sandbox, monitors, captured, wallclock >>

\* tokio::signal::ctrl_c().await returns Ok: the interrupt has arrived.
main_interrupted ==
    /\ proc = "running"
    /\ main.pc = "ctrl_c"
    /\ main' = [main EXCEPT !.pc = "stop", !.interrupted = TRUE]
    /\ UNCHANGED << enabled, checks, rows, updates, proc >>
    /\ UNCHANGED schedVars
    /\ UNCHANGED << cron, engine, sandbox, monitors, captured, wallclock >>

\* A statement of main returns Err and ? returns it from main: the process
\* ends with the exit code of a failure, its tasks dropped.
main_fails(step) ==
    /\ proc = "running"
    /\ main.pc = step
    /\ step \in MainFallible
    /\ main' = [main EXCEPT !.pc = "exited",
                            !.failed_at = Some(IF step = "load_failed" THEN "load" ELSE step),
                            !.exit_code = Some(ExitFailure)]
    /\ proc' = "exited"
    /\ checks' = [i \in DOMAIN checks |-> Cancel(checks[i])]
    /\ UNCHANGED << enabled, rows, updates >>
    /\ UNCHANGED schedVars
    /\ UNCHANGED << cron, engine, sandbox, monitors, captured, wallclock >>

\* A row of table monitors is updated (UpdateMonitorRequest.enabled).
update_enabled(m, b) ==
    /\ updates < MaxUpdates
    /\ enabled[m] # b
    /\ enabled' = [enabled EXCEPT ![m] = b]
    /\ updates' = updates + 1
    /\ UNCHANGED << checks, rows, proc >>
    /\ UNCHANGED schedVars
    /\ UNCHANGED << cron, engine, sandbox, monitors, captured, main, wallclock >>

\* A row of table monitors is updated (UpdateMonitorRequest.timeout,
\* .expected_status).
update_monitor(m, expected_status, timeout) ==
    /\ updates < MaxUpdates
    /\ << monitors[m].expected_status, monitors[m].timeout >> # << expected_status, timeout >>
    /\ monitors' = [monitors EXCEPT ![m].expected_status = expected_status, ![m].timeout = timeout]
    /\ updates' = updates + 1
    /\ UNCHANGED << enabled, checks, rows, proc >>
    /\ UNCHANGED schedVars
    /\ UNCHANGED << cron, engine, sandbox, captured, main, wallclock >>

\* ---------------------------------------------------------------- executor
\* Mutant of job_fires: the check is given the row table monitors holds
\* when the job fires.
job_fires_reads_table(m) ==
    /\ proc = "running" /\ ticking
    /\ jobs[m] > 0
    /\ Len(checks) < MaxChecks
    /\ checks' = Append(checks, NewCheck(monitors[m]))
    /\ UNCHANGED << enabled, rows, updates, proc >>
    /\ UNCHANGED schedVars
    /\ UNCHANGED << cron, engine, sandbox, monitors, captured, main, wallclock >>

\* Mutant of job_fires: a firing waits until no check of the same monitor
\* is in flight.
job_fires_serialized(m) ==
    /\ proc = "running" /\ ticking
    /\ jobs[m] > 0
    /\ Len(checks) < MaxChecks
    /\ \A i \in DOMAIN checks : checks[i].monitor.id = m => checks[i].pc \notin {"send", "body", "insert"}
    /\ \E c \in captured[m] : checks' = Append(checks, NewCheck(c.monitor))
    /\ UNCHANGED << enabled, rows, updates, proc >>
    /\ UNCHANGED schedVars
    /\ UNCHANGED << cron, engine, sandbox, monitors, captured, main, wallclock >>

\* The job closure of schedule_monitor: a firing spawns one check task with
\* the monitor captured when the job was built.
job_fires(m) ==
    /\ proc = "running" /\ ticking
    /\ jobs[m] > 0
    /\ Len(checks) < MaxChecks
    /\ \E c \in captured[m] : checks' = Append(checks, NewCheck(c.monitor))
    /\ UNCHANGED << enabled, rows, updates, proc >>
    /\ UNCHANGED schedVars
    /\ UNCHANGED << cron, engine, sandbox, monitors, captured, main, wallclock >>

\* save_monitor_result(db, &result) is called with the result just built.
Attempt(c, r) ==
    [c EXCEPT !.pc = "insert", !.attempts = @ + 1, !.result = Some(r),
              !.elapsed = 0]

\* request.send() completes with a response before the ceiling.
send_completes(i, code) ==
    /\ proc = "running"
    /\ checks[i].pc = "send"
    /\ checks[i].elapsed < checks[i].monitor.timeout
    /\ LET c == checks[i]
       IN  checks' = [checks EXCEPT ![i] =
                        [c EXCEPT !.pc = "body", !.outcome = "completed",
                                  !.observed = Some(code),
                                  !.response_time = ElapsedMillis(c.elapsed)]]
    /\ UNCHANGED << enabled, rows, updates, proc >>
    /\ UNCHANGED schedVars
    /\ UNCHANGED << cron, engine, sandbox, monitors, captured, main, wallclock >>

\* Mutant of send_fails: the transport error is returned to the job closure
\* with ? and no result is built.
send_fails_propagates(i, e) ==
    /\ checks[i].pc = "send"
    /\ checks[i].elapsed < checks[i].monitor.timeout
    /\ checks' = [checks EXCEPT ![i] = [@ EXCEPT !.pc = "err", !.outcome = "transport_error"]]
    /\ UNCHANGED << enabled, rows, updates, proc >>
    /\ UNCHANGED schedVars
    /\ UNCHANGED << cron, engine, sandbox, monitors, captured, main, wallclock >>

\* request.send() fails before the ceiling.
send_fails(i, e) ==
    /\ proc = "running"
    /\ checks[i].pc = "send"
    /\ checks[i].elapsed < checks[i].monitor.timeout
    /\ LET c == checks[i]
           r == ResultTransportError(i, c.monitor, ElapsedMillis(c.elapsed), e)
       IN  checks' = [checks EXCEPT ![i] =
                        Attempt([c EXCEPT !.outcome = "transport_error",
                                          !.response_time = r.response_time], r)]
    /\ UNCHANGED << enabled, rows, updates, proc >>
    /\ UNCHANGED schedVars
    /\ UNCHANGED << cron, engine, sandbox, monitors, captured, main, wallclock >>

\* tokio::time::timeout(monitor.timeout, request.send()) elapses.
timeout_elapses(i) ==
    /\ proc = "running"
    /\ checks[i].pc = "send"
    /\ checks[i].elapsed >= checks[i].monitor.timeout
    /\ LET c == checks[i]
           r == ResultTimeout(i, c.monitor, ElapsedMillis(c.elapsed))
       IN  checks' = [checks EXCEPT ![i] =
                        Attempt([c EXCEPT !.outcome = "ceiling",
                                          !.response_time = r.response_time], r)]
    /\ UNCHANGED << enabled, rows, updates, proc >>
    /\ UNCHANGED schedVars
    /\ UNCHANGED << cron, engine, sandbox, monitors, captured, main, wallclock >>

\* response.text().await returns the body.
text_completes(i, body) ==
    /\ proc = "running"
    /\ checks[i].pc = "body"
    /\ LET c == checks[i]
           r == ResultCompleted(i, c.monitor, c.response_time,
                                Unwrap(c.observed), body)
       IN  checks' = [checks EXCEPT ![i] =
                        Attempt([c EXCEPT !.bodyRead = "ok"], r)]
    /\ UNCHANGED << enabled, rows, updates, proc >>
    /\ UNCHANGED schedVars
    /\ UNCHANGED << cron, engine, sandbox, monitors, captured, main, wallclock >>

\* response.text().await fails: unwrap_or_default() gives the empty string.
text_fails(i) ==
    /\ proc = "running"
    /\ checks[i].pc = "body"
    /\ LET c == checks[i]
           r == ResultCompleted(i, c.monitor, c.response_time,
                                Unwrap(c.observed), "")
       IN  checks' = [checks EXCEPT ![i] =
                        Attempt([c EXCEPT !.bodyRead = "failed"], r)]
    /\ UNCHANGED << enabled, rows, updates, proc >>
    /\ UNCHANGED schedVars
    /\ UNCHANGED << cron, engine, sandbox, monitors, captured, main, wallclock >>

\* Mutant of insert_succeeds: the INSERT waits until every earlier firing of
\* the same monitor has returned.
insert_succeeds_in_firing_order(i) ==
    /\ proc = "running"
    /\ checks[i].pc = "insert"
    /\ \A k \in 1..(i - 1) : checks[k].monitor.id = checks[i].monitor.id => ~InFlight(checks[k])
    /\ rows' = Append(rows, Unwrap(checks[i].result))
    /\ checks' = [checks EXCEPT ![i] = [@ EXCEPT !.pc = "ok"]]
    /\ UNCHANGED << enabled, updates, proc >>
    /\ UNCHANGED schedVars
    /\ UNCHANGED << cron, engine, sandbox, monitors, captured, main, wallclock >>

\* The INSERT of save_monitor_result succeeds: execute_monitor_check returns Ok.
insert_succeeds(i) ==
    /\ proc = "running"
    /\ checks[i].pc = "insert"
    /\ rows' = Append(rows, Unwrap(checks[i].result))
    /\ checks' = [checks EXCEPT ![i] = [@ EXCEPT !.pc = "ok"]]
    /\ UNCHANGED << enabled, updates, proc >>
    /\ UNCHANGED schedVars
    /\ UNCHANGED << cron, engine, sandbox, monitors, captured, main, wallclock >>

\* Mutant of insert_fails: the failed INSERT is attempted again.
insert_fails_retries(i) ==
    /\ proc = "running"
    /\ checks[i].pc = "insert"
    /\ checks[i].attempts < MaxChecks + 1
    /\ checks' = [checks EXCEPT ![i] = [@ EXCEPT !.attempts = @ + 1]]
    /\ UNCHANGED << enabled, rows, updates, proc >>
    /\ UNCHANGED schedVars
    /\ UNCHANGED << cron, engine, sandbox, monitors, captured, main, wallclock >>

\* The INSERT fails: save_monitor_result(..).await? returns the error, which
\* the job closure logs.
insert_fails(i) ==
    /\ proc = "running"
    /\ checks[i].pc = "insert"
    /\ checks' = [checks EXCEPT ![i] = [@ EXCEPT !.pc = "err"]]
    /\ UNCHANGED << enabled, rows, updates, proc >>
    /\ UNCHANGED schedVars
    /\ UNCHANGED << cron, engine, sandbox, monitors, captured, main, wallclock >>

\* One second passes for every check that waits for the network.  The
\* timeout of a sending check fires before its clock passes the ceiling.
Waiting(c) == c.pc \in {"send", "body"}

Advance(c) ==
    IF Waiting(c) /\ c.elapsed < MaxElapsed
    THEN [c EXCEPT !.elapsed = @ + 1] ELSE c

second_passes ==
    /\ proc = "running"
    /\ \E i \in DOMAIN checks : Waiting(checks[i]) /\ checks[i].elapsed < MaxElapsed
    /\ \A i \in DOMAIN checks :
          checks[i].pc = "send" => checks[i].elapsed < checks[i].monitor.timeout
    /\ checks' = [i \in DOMAIN checks |-> Advance(checks[i])]
    /\ UNCHANGED << enabled, rows, updates, proc >>
    /\ UNCHANGED schedVars
    /\ UNCHANGED << cron, engine, sandbox, monitors, captured, main, wallclock >>

\* The scheduler after main has run start() and load_and_schedule_monitors()
\* on the initial table: the state in which the process waits for ctrl_c.
InitRunning ==
    /\ enabled = [m \in MonitorIds |-> m \in {"m1", "m2"}]
    /\ updates = 0
    /\ ticking = TRUE
    /\ stopped = FALSE
    /\ heartbeats = 1
    /\ jobs = [m \in MonitorIds |-> IF m \in {"m1", "m2"} THEN 1 ELSE 0]
    /\ calls = 2
    /\ lastLoad = [result |-> "ok", rows |-> {"m1", "m2"}]
    /\ checks = << >>
    /\ rows = << >>
    /\ proc = "running"
    /\ cron = CronIdle
    /\ engine = EngineIdle
    /\ sandbox = SandboxIdle
    /\ monitors = [m \in MonitorIds |-> MonitorRow(m)]
    /\ captured = [m \in MonitorIds |-> IF jobs[m] > 0 THEN {Captured(MonitorRow(m), TRUE)} ELSE {}]
    /\ main = MainDetached
    /\ wallclock = WallClockIdle

\* The running scheduler with two checks in flight of a monitor whose
\* timeout is the largest an i32 holds, each with its request out for a
\* number of seconds around those at which the milliseconds pass a power of
\* two the cast cuts at.
I32Max == 2147483647
LongWaits == {0, 2147483, 2147484, 4294967, 4294968, I32Max}
LongCheck(seconds) == [NewCheck(MonitorRow("m1")) EXCEPT !.monitor.timeout = I32Max, !.elapsed = seconds]
InitLongTimeout ==
    /\ enabled = [m \in MonitorIds |-> m \in {"m1", "m2"}]
    /\ updates = 0
    /\ ticking = TRUE
    /\ stopped = FALSE
    /\ heartbeats = 1
    /\ jobs = [m \in MonitorIds |-> IF m \in {"m1", "m2"} THEN 1 ELSE 0]
    /\ calls = 2
    /\ lastLoad = [result |-> "ok", rows |-> {"m1", "m2"}]
    /\ checks \in {<< LongCheck(a), LongCheck(b) >> : a \in LongWaits, b \in LongWaits}
    /\ rows = << >>
    /\ proc = "running"
    /\ cron = CronIdle
    /\ engine = EngineIdle
    /\ sandbox = SandboxIdle
    /\ monitors = [m \in MonitorIds |-> MonitorRow(m)]
    /\ captured = [m \in MonitorIds |-> IF jobs[m] > 0 THEN {Captured(MonitorRow(m), TRUE)} ELSE {}]
    /\ main = MainDetached
    /\ wallclock = WallClockIdle

\* The steps of the checks in flight.
NextChecks ==
    \/ \E i \in DOMAIN checks, code \in Codes : send_completes(i, code)
    \/ \E i \in DOMAIN checks, e \in TransportErrors : send_fails(i, e)
    \/ \E i \in DOMAIN checks : timeout_elapses(i)
    \/ \E i \in DOMAIN checks, body \in Bodies : text_completes(i, body)
    \/ \E i \in DOMAIN checks : text_fails(i)
    \/ \E i \in DOMAIN checks : insert_succeeds(i)
    \/ \E i \in DOMAIN checks : insert_fails(i)

SpecLongTimeout == InitLongTimeout /\ [][NextChecks]_vars

\* Values of column headers: no value, objects of strings, objects with a
\* value that is no string, and values that are no object.
HeaderValues ==
    {None,
     Some(JsonObjectWith(<< >>)),
     Some(JsonObjectWith(<< << "X-Token", JsonString("t") >> >>)),
     Some(JsonObjectWith(<< << "X-Token", JsonString("t") >>, << "X-Retries", JsonNumber(3) >> >>)),
     Some(JsonObjectWith(<< << "X-Retries", JsonNumber(3) >> >>)),
     Some(JsonString("X-Token: t")),
     Some(JsonArray(0)),
     Some(JsonNull)}

\* The running scheduler with the first check of a monitor in flight, for
\* every method text and every headers value of the monitor's row.
RequestMonitor(method, headers) == [MonitorRow("m1") EXCEPT !.method = method, !.headers = headers]
InitRequests ==
    /\ enabled = [m \in MonitorIds |-> m = "m1"]
    /\ updates = 0
    /\ ticking = TRUE
    /\ stopped = FALSE
    /\ heartbeats = 1
    /\ jobs = [m \in MonitorIds |-> IF m = "m1" THEN 1 ELSE 0]
    /\ calls = 2
    /\ lastLoad = [result |-> "ok", rows |-> {"m1"}]
    /\ \E method \in MethodTexts, headers \in HeaderValues :
          /\ monitors = [m \in MonitorIds |-> IF m = "m1" THEN RequestMonitor(method, headers) ELSE MonitorRow(m)]
          /\ captured = [m \in MonitorIds |-> IF m = "m1" THEN {Captured(RequestMonitor(method, headers), TRUE)} ELSE {}]
          /\ checks = << NewCheck(RequestMonitor(method, headers)) >>
    /\ rows = << >>
    /\ proc = "running"
    /\ cron = CronIdle
    /\ engine = EngineIdle
    /\ sandbox = SandboxIdle
    /\ main = MainDetached
    /\ wallclock = WallClockIdle

NextRequests ==
    \/ NextChecks
    \/ second_passes

SpecRequests == InitRequests /\ [][NextRequests]_vars

\* The running scheduler: firings, the steps of their checks, shutdown.
Next ==
    \/ stop
    \/ main_returns
    \/ \E m \in MonitorIds : job_fires(m)
    \/ \E i \in DOMAIN checks, code \in Codes : send_completes(i, code)
    \/ \E i \in DOMAIN checks, e \in TransportErrors : send_fails(i, e)
    \/ \E i \in DOMAIN checks : timeout_elapses(i)
    \/ \E i \in DOMAIN checks, body \in Bodies : text_completes(i, body)
    \/ \E i \in DOMAIN checks : text_fails(i)
    \/ \E i \in DOMAIN checks : insert_succeeds(i)
    \/ \E i \in DOMAIN checks : insert_fails(i)
    \/ second_passes

Spec == InitRunning /\ [][Next]_vars

\* The same scheduler on a table whose enabled monitors are the two that
\* carry a script.
InitRunningScripts ==
    /\ enabled = [m \in MonitorIds |-> m \in {"m2", "m4"}]
    /\ updates = 0
    /\ ticking = TRUE
    /\ stopped = FALSE
    /\ heartbeats = 1
    /\ jobs = [m \in MonitorIds |-> IF m \in {"m2", "m4"} THEN 1 ELSE 0]
    /\ calls = 2
    /\ lastLoad = [result |-> "ok", rows |-> {"m2", "m4"}]
    /\ checks = << >>
    /\ rows = << >>
    /\ proc = "running"
    /\ cron = CronIdle
    /\ engine = EngineIdle
    /\ sandbox = SandboxIdle
    /\ monitors = [m \in MonitorIds |-> MonitorRow(m)]
    /\ captured = [m \in MonitorIds |-> IF jobs[m] > 0 THEN {Captured(MonitorRow(m), TRUE)} ELSE {}]
    /\ main = MainDetached
    /\ wallclock = WallClockIdle

SpecScripts == InitRunningScripts /\ [][Next]_vars

\* The lifecycle of the scheduler object from MonitorScheduler::new on: the
\* calls of its owner, the updates of table monitors and the firings.
NextScheduler ==
    \/ start
    \/ \E o \in RowOrders(get_enabled_monitors) : load_and_schedule_monitors(o)
    \/ stop
    \/ main_returns
    \/ \E m \in MonitorIds, b \in BOOLEAN : update_enabled(m, b)
    \/ \E m \in MonitorIds : job_fires(m)

SpecScheduler == Init /\ [][NextScheduler]_vars

\* The process from the first statement of main to its exit, with the
\* firings of its jobs and the API that writes column enabled.
InitMain ==
    /\ enabled = [m \in MonitorIds |-> m \in {"m1", "m2"}]
    /\ updates = 0
    /\ ticking = FALSE
    /\ stopped = FALSE
    /\ heartbeats = 0
    /\ jobs = [m \in MonitorIds |-> 0]
    /\ calls = 0
    /\ lastLoad = [result |-> "none", rows |-> {}]
    /\ checks = << >>
    /\ rows = << >>
    /\ proc = "running"
    /\ cron = CronIdle
    /\ engine = EngineIdle
    /\ sandbox = SandboxIdle
    /\ monitors = [m \in MonitorIds |-> MonitorRow(m)]
    /\ captured = [m \in MonitorIds |-> {}]
    /\ main = MainAtEntry
    /\ wallclock = WallClockIdle

NextMain ==
    \/ main_proceeds
    \/ \E step \in MainFallible : main_fails(step)
    \/ start
    \/ \E o \in RowOrders(get_enabled_monitors) : load_and_schedule_monitors(o)
    \/ main_interrupted
    \/ stop
    \/ main_returns
    \/ \E m \in MonitorIds, b \in BOOLEAN : update_enabled(m, b)
    \/ \E m \in MonitorIds : job_fires(m)

SpecMain == InitMain /\ [][NextMain]_vars

\* The scheduler after start(), its jobs not yet loaded, next to the API
\* that writes table monitors: load, firings, checks up to their INSERT.
Timeouts == {1, 2}
TableMonitors == {"m1"}
InitTable ==
    /\ enabled = [m \in MonitorIds |-> m \in TableMonitors]
    /\ updates = 0
    /\ ticking = TRUE
    /\ stopped = FALSE
    /\ heartbeats = 1
    /\ jobs = [m \in MonitorIds |-> 0]
    /\ calls = 1
    /\ lastLoad = [result |-> "none", rows |-> {}]
    /\ checks = << >>
    /\ rows = << >>
    /\ proc = "running"
    /\ cron = CronIdle
    /\ engine = EngineIdle
    /\ sandbox = SandboxIdle
    /\ monitors = [m \in MonitorIds |-> MonitorRow(m)]
    /\ captured = [m \in MonitorIds |-> {}]
    /\ main = MainDetached
    /\ wallclock = WallClockIdle

NextTable ==
    \/ \E o \in RowOrders(get_enabled_monitors) : load_and_schedule_monitors(o)
    \/ \E m \in TableMonitors, b \in BOOLEAN : update_enabled(m, b)
    \/ \E m \in TableMonitors, expected_status \in Codes, timeout \in Timeouts : update_monitor(m, expected_status, timeout)
    \/ \E m \in TableMonitors : job_fires(m)
    \/ \E i \in DOMAIN checks, code \in Codes : send_completes(i, code)
    \/ \E i \in DOMAIN checks, body \in Bodies : text_completes(i, body)
    \/ \E i \in DOMAIN checks : insert_succeeds(i)

SpecTable == InitTable /\ [][NextTable]_vars

\* ---------------------------------------------------------------- cron job
\* One job of schedule_monitor against the wall clock.  The JobScheduler
\* runs the job in every second its expression stands for, once.
cron_job_fires ==
    /\ ~cron.fired
    /\ cron.second \in CronSeconds(cron_expression(cron.interval))
    /\ cron' = [cron EXCEPT !.fired = TRUE,
                            !.gap = IF IsSome(cron.since)
                                    THEN Some([seconds |-> Unwrap(cron.since), across |-> cron.crossed])
                                    ELSE None,
                            !.since = Some(0),
                            !.crossed = FALSE]
    /\ UNCHANGED << enabled, ticking, stopped, heartbeats, jobs, calls, lastLoad, checks, rows, updates, proc, engine, sandbox, monitors, captured, main, wallclock >>

\* The wall clock reaches the next second; a job due in this second has run.
wall_clock_ticks ==
    /\ cron.second \in CronSeconds(cron_expression(cron.interval)) => cron.fired
    /\ cron' = [cron EXCEPT !.second = (@ + 1) % SecondsPerMinute,
                            !.fired = FALSE,
                            !.since = IF IsSome(@) THEN Some(Unwrap(@) + 1) ELSE None,
                            !.crossed = IF IsSome(cron.since)
                                        THEN @ \/ cron.second = SecondsPerMinute - 1
                                        ELSE FALSE]
    /\ UNCHANGED << enabled, ticking, stopped, heartbeats, jobs, calls, lastLoad, checks, rows, updates, proc, engine, sandbox, monitors, captured, main, wallclock >>

\* A job of any interval the cron grammar takes, registered at second 0.
InitCron ==
    /\ cron \in [interval : CronMin..CronMax, second : {0}, fired : {FALSE}, since : {None}, crossed : {FALSE}, gap : {None}]
    /\ enabled = [m \in MonitorIds |-> m \in {"m1", "m2"}]
    /\ updates = 0
    /\ ticking = TRUE
    /\ stopped = FALSE
    /\ heartbeats = 1
    /\ jobs = [m \in MonitorIds |-> 0]
    /\ calls = 1
    /\ lastLoad = [result |-> "none", rows |-> {}]
    /\ checks = << >>
    /\ rows = << >>
    /\ proc = "running"
    /\ engine = EngineIdle
    /\ sandbox = SandboxIdle
    /\ monitors = [m \in MonitorIds |-> MonitorRow(m)]
    /\ captured = [m \in MonitorIds |-> IF jobs[m] > 0 THEN {Captured(MonitorRow(m), TRUE)} ELSE {}]
    /\ main = MainDetached
    /\ wallclock = WallClockIdle

NextCron ==
    \/ cron_job_fires
    \/ wall_clock_ticks

SpecCron == InitCron /\ [][NextCron]_vars

\* ---------------------------------------------------------------- script engine
\* JavaScript values (rquickjs Value): of an array its length; of an object
\* the number of its own enumerable properties, whether reading one of
\* them throws, where they are followed the properties themselves (in
\* their JSON form), and the name of what its property constructor holds.
JsValue(type) == [type |-> type, bool |-> FALSE, num |-> 0, nan |-> FALSE, inf |-> FALSE, str |-> "", name |-> "", len |-> 0, getterThrows |-> FALSE, props |-> << >>, ctor |-> "", containsItself |-> FALSE]
JsUndefined == JsValue("undefined")
JsNull == JsValue("null")
JsBoolean(b) == [JsValue("boolean") EXCEPT !.bool = b]
JsNumber(n) == [JsValue("number") EXCEPT !.num = n]
JsNaN == [JsValue("number") EXCEPT !.nan = TRUE]
JsString(s) == [JsValue("string") EXCEPT !.str = s]
JsArray(n) == [JsValue("array") EXCEPT !.len = n]
JsObject(n) == [JsValue("object") EXCEPT !.len = n, !.ctor = "Object"]
JsObjectThrowingGetter == [JsValue("object") EXCEPT !.len = 1, !.getterThrows = TRUE, !.ctor = "Object"]
\* An array whose one element is the array, an object whose one property
\* holds an object whose one property holds the first.
JsArrayOfItself == [JsValue("array") EXCEPT !.len = 1, !.containsItself = TRUE]
JsObjectOfItself == [JsValue("object") EXCEPT !.len = 1, !.ctor = "Object", !.containsItself = TRUE]
\* Infinity and -Infinity.
JsInfinity(positive) == [JsValue("number") EXCEPT !.inf = TRUE, !.bool = positive]
\* A function with its name.
JsFunction(name) == [JsValue("function") EXCEPT !.name = name, !.ctor = "Function"]
\* A Date with its time value in milliseconds, a RegExp with its source, an
\* Error of a class (Error, TypeError, ...) with its message: objects
\* without enumerable properties of their own.
JsDate(timestamp) == [JsValue("object") EXCEPT !.num = timestamp, !.ctor = "Date"]
JsRegExp(source) == [JsValue("object") EXCEPT !.str = source, !.ctor = "RegExp"]
JsError(name, message) == [JsValue("object") EXCEPT !.name = name, !.str = message, !.ctor = name]
\* A symbol with its description.
JsSymbol(description) == [JsValue("symbol") EXCEPT !.str = description]

\* ValidationContext of a completed request.
ValidationContext(status_code, body, response_time) ==
    [status_code |-> status_code, body |-> body, response_time |-> response_time]

\* The script sources the engine is called with.
ScriptLoopsVerbatim == "while (true) {}"
ScriptLoopsDeclared == "let n = 0;\nwhile (true) { n++ }"
ScriptSyntaxError == "function test( {"
ScriptThrowingGetter == "({ get a() { throw new Error('x') } })"
ScriptTimingTest == "// Simple performance test\n'completed'"
ScriptLongThrows == "// the status\n// is not the one expected\nthrow new Error('down')"
ScriptMentionsFunction == "throw new Error('malfunction')"
ScriptDestructures == "const{status_code}=context;status_code < 500"
ScriptAsserts == "assert(context.status_code === 200, 'Status code should be 200');"
ScriptArrayOfItself == "(a => (a.push(a), a))([])"
ScriptObjectOfItself == "(o => (o.p = { q: o }, o))({})"
ValueScripts == {"undefined", "null", "false", "true", "0", "1", "NaN", "''", "'completed'", "[]", "[1, 'test', true]", "({})", "({ a: 1, b: 'test' })", "Infinity", "-Infinity", "Math.max", "new Date(0)", "/a+/", "new Error('x')", "new TypeError('x')", "Symbol('s')"}
Scripts == ValueScripts \cup {ScriptStatusBelow500, ScriptThrows, ScriptLoopsVerbatim, ScriptLoopsDeclared, ScriptSyntaxError, ScriptThrowingGetter, ScriptTimingTest, ScriptLongThrows, ScriptMentionsFunction, ScriptDestructures, ScriptAsserts, ScriptArrayOfItself, ScriptObjectOfItself}

\* trimmed.lines().count() of a source.
LineCount(script) ==
    CASE script \in {ScriptLoopsDeclared, ScriptTimingTest} -> 2
      [] script = ScriptLongThrows -> 3
      [] OTHER -> 1

\* Whether a source contains "function", "var ", "let " or "const " as a
\* substring.
ContainsDeclaration(script) == script \in {ScriptLoopsDeclared, ScriptSyntaxError, ScriptMentionsFunction}

\* wrap_script_with_metadata: a source of at most MaxVerbatimLines lines
\* without a declaration keyword is evaluated as it is; any other source is
\* put, as text, in the place of "{script}" in the wrapper template.
MaxVerbatimLines == 2
wrap_script_with_metadata(script) ==
    IF LineCount(script) <= MaxVerbatimLines /\ ~ContainsDeclaration(script)
    THEN [wrapped |-> FALSE, script |-> script]
    ELSE [wrapped |-> TRUE, script |-> script]

\* The ways ctx.eval can go: Ok(value), Err after the script raised an error
\* with a message, no return at all, or Err from the engine itself.
Returns(value) == [does |-> "return", value |-> value, error |-> ""]
Throws(message) == [does |-> "throw", value |-> JsUndefined, error |-> message]
Loops == [does |-> "loop", value |-> JsUndefined, error |-> ""]
\* ctx.eval returns Err with an error other than Exception.
Fails(text) == [does |-> "fail", value |-> JsUndefined, error |-> text]

\* The utility function assert(cond, msg) of the host: an error with the
\* message msg when cond does not hold.
assert(cond, msg) == IF cond THEN Returns(JsUndefined) ELSE Throws(msg)

\* ctx.eval on the user's source: what QuickJS does with it.  "return" is
\* Ok(value), "throw" is Err, "loop" never comes back.
EvalUser(script, context) ==
    CASE script = ScriptStatusBelow500 -> Returns(JsBoolean(context.status_code < 500))
      [] script = ScriptThrows -> Throws("down")
      [] script = ScriptSyntaxError -> Throws("SyntaxError: unexpected token")
      [] script = ScriptLoopsVerbatim -> Loops
      [] script = ScriptLoopsDeclared -> Loops
      [] script = ScriptThrowingGetter -> Returns(JsObjectThrowingGetter)
      [] script = ScriptTimingTest -> Returns(JsString("completed"))
      [] script = ScriptLongThrows -> Throws("down")
      [] script = ScriptMentionsFunction -> Throws("malfunction")
      [] script = ScriptDestructures -> Returns(JsBoolean(context.status_code < 500))
      [] script = ScriptAsserts -> assert(context.status_code = 200, "Status code should be 200")
      [] script = ScriptArrayOfItself -> Returns(JsArrayOfItself)
      [] script = ScriptObjectOfItself -> Returns(JsObjectOfItself)
      [] script = "undefined" -> Returns(JsUndefined)
      [] script = "null" -> Returns(JsNull)
      [] script = "false" -> Returns(JsBoolean(FALSE))
      [] script = "true" -> Returns(JsBoolean(TRUE))
      [] script = "0" -> Returns(JsNumber(0))
      [] script = "1" -> Returns(JsNumber(1))
      [] script = "NaN" -> Returns(JsNaN)
      [] script = "''" -> Returns(JsString(""))
      [] script = "'completed'" -> Returns(JsString("completed"))
      [] script = "[]" -> Returns(JsArray(0))
      [] script = "[1, 'test', true]" -> Returns(JsArray(3))
      [] script = "({})" -> Returns(JsObject(0))
      [] script = "({ a: 1, b: 'test' })" -> Returns(JsObject(2))
      [] script = "Infinity" -> Returns(JsInfinity(TRUE))
      [] script = "-Infinity" -> Returns(JsInfinity(FALSE))
      [] script = "Math.max" -> Returns(JsFunction("max"))
      [] script = "new Date(0)" -> Returns(JsDate(0))
      [] script = "/a+/" -> Returns(JsRegExp("a+"))
      [] script = "new Error('x')" -> Returns(JsError("Error", "x"))
      [] script = "new TypeError('x')" -> Returns(JsError("TypeError", "x"))
      [] script = "Symbol('s')" -> Returns(JsSymbol("s"))

\* ctx.eval on the source execute_script hands it.  The wrapper holds the
\* user's text unchanged, so a loop of the user runs in it as it is written,
\* and it raises again what the user's text raises.
Eval(wrapped, context) ==
    LET user == EvalUser(wrapped.script, context)
    IN  IF wrapped.wrapped /\ user.does = "throw"
        THEN Throws(user.error)
        ELSE user

\* js_value_to_serde_value, in the order of its tests.
js_value_to_serde_value(value) ==
    CASE value.type = "undefined" -> JsonObject("undefined", 1)
      [] value.type = "null" -> JsonNull
      [] value.type = "boolean" -> JsonBool(value.bool)
      [] value.type = "number" /\ value.nan -> JsonObject("NaN", 1)
      [] value.type = "number" /\ value.inf -> JsonTagged("Infinity", << << "positive", JsonBool(value.bool) >> >>)
      [] value.type = "number" /\ ~value.nan /\ ~value.inf -> JsonNumber(value.num)
      [] value.type = "string" -> JsonString(value.str)
      [] value.type = "array" -> JsonArray(value.len)
      [] value.type = "function" -> JsonTagged("function", << << "name", JsonString("function") >> >>)
      [] value.type = "object" /\ value.ctor = "Date" -> JsonTagged("Date", << << "timestamp", JsonString("date_object") >> >>)
      [] value.type = "object" /\ value.ctor = "RegExp" -> JsonTagged("RegExp", << << "source", JsonString("regex_pattern") >> >>)
      [] value.type = "object" /\ value.ctor = "Error" ->
            JsonTagged("Error", << << "name", JsonString(value.name) >>, << "message", JsonString(value.str) >> >>)
      [] value.type = "object" /\ value.ctor \notin {"Date", "RegExp", "Error"} ->
            [JsonObjectWith(value.props) EXCEPT !.len = value.len]
      [] value.type = "symbol" -> JsonTagged("symbol", << << "description", JsonString("symbol") >> >>)

\* Whether the calls of js_value_to_serde_value on the elements or the
\* properties of a value come to the value again.
Recurses(value) == value.type \in {"array", "object"} /\ value.containsItself

\* result.unwrap() on a property whose getter throws.
BridgePanics(value) == value.type = "object" /\ value.getterThrows

\* extract_detailed_error for rquickjs::Error::Exception.
extract_detailed_error == [type |-> "exception", message |-> "JavaScript exception occurred"]

\* An rquickjs::Error other than Exception, with its Display text.
ErrorUnknown == [variant |-> "Unknown", text |-> "quickjs library created a unknown error"]
ErrorInvalidString == [variant |-> "InvalidString", text |-> "String contained internal null bytes"]
ErrorNamingSyntaxError == [variant |-> "FromJs", text |-> "Error converting from js 'SyntaxError' into type 'String'"]
ErrorNamingReferenceError == [variant |-> "FromJs", text |-> "Error converting from js 'ReferenceError' into type 'String'"]
ErrorNamingTypeError == [variant |-> "FromJs", text |-> "Error converting from js 'TypeError' into type 'String'"]
ErrorNamingAll == [variant |-> "FromJs", text |-> "Error converting from js 'TypeError' into type 'ReferenceError': SyntaxError"]
OtherErrors == {ErrorUnknown, ErrorInvalidString, ErrorNamingSyntaxError, ErrorNamingReferenceError, ErrorNamingTypeError, ErrorNamingAll}

\* The error names that occur in a text as substrings.
ErrorNamesIn(text) ==
    CASE text = ErrorNamingSyntaxError.text -> {"SyntaxError"}
      [] text = ErrorNamingReferenceError.text -> {"ReferenceError"}
      [] text = ErrorNamingTypeError.text -> {"TypeError"}
      [] text = ErrorNamingAll.text -> {"SyntaxError", "ReferenceError", "TypeError"}
      [] text = "SyntaxError: unexpected token" -> {"SyntaxError"}
      [] OTHER -> {}

\* error_msg.contains(token)
contains(error_msg, token) == token \in ErrorNamesIn(error_msg)

\* The preview_size of get_script_preview without an error line.
preview_size == 10

\* get_script_preview(script, None): the numbers of the lines it shows.
get_script_preview(script) ==
    LET total_lines == LineCount(script)
        end == IF preview_size < total_lines THEN preview_size ELSE total_lines
    IN  [lines |-> [i \in 1..end |-> i], total_lines |-> total_lines]

\* parse_error_message: the first token found, in the order of its tests.
parse_error_message(error_msg, script) ==
    IF contains(error_msg, "SyntaxError")
    THEN Some([type |-> "syntax_error", message |-> error_msg,
               script_preview |-> get_script_preview(script),
               suggestion |-> "Check for missing semicolons, brackets, or invalid syntax"])
    ELSE IF contains(error_msg, "ReferenceError")
    THEN Some([type |-> "reference_error", message |-> error_msg,
               script_preview |-> get_script_preview(script),
               suggestion |-> "Check for undefined variables or functions"])
    ELSE IF contains(error_msg, "TypeError")
    THEN Some([type |-> "type_error", message |-> error_msg,
               script_preview |-> get_script_preview(script),
               suggestion |-> "Check for incorrect data types or null/undefined values"])
    ELSE None

\* extract_detailed_error for an error other than rquickjs::Error::Exception.
extract_detailed_error_other(error, original_script) ==
    LET exception_info == parse_error_message(error.text, original_script)
    IN  IF IsSome(exception_info)
        THEN Unwrap(exception_info)
        ELSE [type |-> "runtime_error", message |-> error.text,
              script_preview |-> get_script_preview(original_script)]

\* The ScriptResult of the error arm of execute_script for such an error.
ScriptResultFailed(error, script) == [success |-> FALSE, result |-> None, error |-> Some(extract_detailed_error_other(error, script))]

\* The ScriptResult of the success arm of execute_script, with success
\* taken from the error arm.
ScriptResultRaised_as_success == [success |-> TRUE, result |-> None, error |-> Some(extract_detailed_error)]
\* The ScriptResult of the error arm of execute_script.
ScriptResultRaised == [success |-> FALSE, result |-> None, error |-> Some(extract_detailed_error)]

\* The ScriptResult of the success arm of execute_script.
ScriptResultOk(value) == [success |-> TRUE, result |-> Some(js_value_to_serde_value(value)), error |-> None]

\* execute_script on a source whose evaluation comes back.
execute_script(script, context) ==
    LET e == Eval(wrap_script_with_metadata(script), context)
    IN  IF e.does = "return" THEN ScriptResultOk(e.value) ELSE ScriptResultRaised

\* The match of execute_validation_script on the result value.
result_is_truthy(v) ==
    CASE v.kind = "Bool" -> v.bool
      [] v.kind = "Null" -> FALSE
      [] v.kind = "Number" -> v.num # 0
      [] v.kind = "String" -> v.str # ""
      [] v.kind = "Array" -> v.len # 0
      [] v.kind = "Object" -> TRUE

\* The ValidationResult execute_validation_script derives from a ScriptResult.
ValidationOf(script_result) ==
    IF script_result.success
    THEN [passed |-> IF IsSome(script_result.result)
                     THEN result_is_truthy(Unwrap(script_result.result))
                     ELSE TRUE,
          message |-> "Validation passed"]
    ELSE [passed |-> FALSE,
          message |-> IF IsSome(script_result.error)
                      THEN Unwrap(script_result.error).message
                      ELSE "Script execution failed"]

execute_validation_script(script, context) == ValidationOf(execute_script(script, context))

\* The configured timeout of the engine, in seconds.
EngineTimeout == 1

\* One call of execute_validation_script, step by step.
EngineContext == ValidationContext(engine.status_code, "ok", 0)
EngineEval ==
    IF IsSome(engine.host_error)
    THEN Fails(Unwrap(engine.host_error).text)
    ELSE Eval(wrap_script_with_metadata(engine.script), EngineContext)

execute_validation_script_called(script, status_code) ==
    /\ engine.pc = "idle"
    /\ engine' = [engine EXCEPT !.pc = "setup", !.script = script, !.status_code = status_code]
    /\ UNCHANGED << enabled, ticking, stopped, heartbeats, jobs, calls, lastLoad, checks, rows, updates, proc, cron, sandbox, monitors, captured, main, wallclock >>

\* Context::full, apply_security_policies or the utility script fails:
\* execute_script returns Err.
setup_fails ==
    /\ engine.pc = "setup"
    /\ engine' = [engine EXCEPT !.pc = "Err"]
    /\ UNCHANGED << enabled, ticking, stopped, heartbeats, jobs, calls, lastLoad, checks, rows, updates, proc, cron, sandbox, monitors, captured, main, wallclock >>

\* The context is set up and ctx.eval starts on the source.
eval_starts ==
    /\ engine.pc = "setup"
    /\ engine' = [engine EXCEPT !.pc = "eval"]
    /\ UNCHANGED << enabled, ticking, stopped, heartbeats, jobs, calls, lastLoad, checks, rows, updates, proc, cron, sandbox, monitors, captured, main, wallclock >>

\* ctx.eval returns Ok(value) and the value is converted.
eval_returns ==
    /\ engine.pc = "eval"
    /\ EngineEval.does = "return"
    /\ ~BridgePanics(EngineEval.value)
    /\ ~Recurses(EngineEval.value)
    /\ engine' = [engine EXCEPT !.pc = "Ok",
                                !.result = Some(ScriptResultOk(EngineEval.value)),
                                !.validation = Some(ValidationOf(ScriptResultOk(EngineEval.value)))]
    /\ UNCHANGED << enabled, ticking, stopped, heartbeats, jobs, calls, lastLoad, checks, rows, updates, proc, cron, sandbox, monitors, captured, main, wallclock >>

\* ctx.eval returns Ok(value) and the conversion of the value panics.
bridge_panics ==
    /\ engine.pc = "eval"
    /\ EngineEval.does = "return"
    /\ BridgePanics(EngineEval.value)
    /\ engine' = [engine EXCEPT !.pc = "panicked"]
    /\ UNCHANGED << enabled, ticking, stopped, heartbeats, jobs, calls, lastLoad, checks, rows, updates, proc, cron, sandbox, monitors, captured, main, wallclock >>

\* ctx.eval returns Ok(value) and the conversion calls itself on an element
\* or a property that holds the value it was called on.
bridge_descends ==
    /\ engine.pc \in {"eval", "converting"}
    /\ EngineEval.does = "return"
    /\ Recurses(EngineEval.value)
    /\ engine.depth < MaxDepth
    /\ engine' = [engine EXCEPT !.pc = "converting", !.depth = @ + 1]
    /\ UNCHANGED << enabled, ticking, stopped, heartbeats, jobs, calls, lastLoad, checks, rows, updates, proc, cron, sandbox, monitors, captured, main, wallclock >>

\* The next call of the conversion finds no room on the stack.
bridge_overflows ==
    /\ engine.pc = "converting"
    /\ engine.depth = MaxDepth
    /\ engine' = [engine EXCEPT !.pc = "overflowed"]
    /\ UNCHANGED << enabled, ticking, stopped, heartbeats, jobs, calls, lastLoad, checks, rows, updates, proc, cron, sandbox, monitors, captured, main, wallclock >>

\* ctx.eval returns Err(e).
eval_raises ==
    /\ engine.pc = "eval"
    /\ EngineEval.does = "throw"
    /\ engine' = [engine EXCEPT !.pc = "Ok",
                                !.result = Some(ScriptResultRaised),
                                !.validation = Some(ValidationOf(ScriptResultRaised))]
    /\ UNCHANGED << enabled, ticking, stopped, heartbeats, jobs, calls, lastLoad, checks, rows, updates, proc, cron, sandbox, monitors, captured, main, wallclock >>

\* The evaluation begins and the engine fails in it with an error of its
\* own, other than Exception.
eval_starts_failing(e) ==
    /\ engine.pc = "setup"
    /\ engine' = [engine EXCEPT !.pc = "eval", !.host_error = Some(e)]
    /\ UNCHANGED << enabled, ticking, stopped, heartbeats, jobs, calls, lastLoad, checks, rows, updates, proc, cron, sandbox, monitors, captured, main, wallclock >>

\* ctx.eval returns Err(e) with e other than Exception.
eval_fails ==
    /\ engine.pc = "eval"
    /\ EngineEval.does = "fail"
    /\ engine' = [engine EXCEPT !.pc = "Ok",
                                !.result = Some(ScriptResultFailed(Unwrap(engine.host_error), engine.script)),
                                !.validation = Some(ValidationOf(ScriptResultFailed(Unwrap(engine.host_error), engine.script)))]
    /\ UNCHANGED << enabled, ticking, stopped, heartbeats, jobs, calls, lastLoad, checks, rows, updates, proc, cron, sandbox, monitors, captured, main, wallclock >>

\* A second passes while ctx.eval runs a loop: nothing interrupts it.
eval_spins ==
    /\ engine.pc = "eval"
    /\ EngineEval.does = "loop"
    /\ engine.elapsed < MaxElapsed
    /\ engine' = [engine EXCEPT !.elapsed = @ + 1]
    /\ UNCHANGED << enabled, ticking, stopped, heartbeats, jobs, calls, lastLoad, checks, rows, updates, proc, cron, sandbox, monitors, captured, main, wallclock >>

NextEngine ==
    \/ \E script \in Scripts, status_code \in Codes : execute_validation_script_called(script, status_code)
    \/ setup_fails
    \/ eval_starts
    \/ eval_returns
    \/ bridge_panics
    \/ bridge_descends
    \/ bridge_overflows
    \/ eval_raises
    \/ \E e \in OtherErrors : eval_starts_failing(e)
    \/ eval_fails
    \/ eval_spins

SpecEngine == Init /\ [][NextEngine]_vars

\* ---------------------------------------------------------------- sandbox
\* The presets of SecurityConfig.
Presets == {"default", "permissive", "strict"}

\* SecurityConfig.denied_functions of a preset.  "fetch" stands for the
\* names of the sets that Context::full does not define (setTimeout,
\* require, window, process and the others): the deny script does the same
\* with each of them.
denied_functions(preset) ==
    CASE preset = "default" -> {"eval", "Function", "fetch"}
      [] preset = "permissive" -> {}
      [] preset = "strict" -> {"eval", "Function", "fetch", "globalThis"}

\* SecurityConfig.disable_eval and disable_function_constructor of a preset.
disable_eval(preset) == preset # "permissive"
disable_function_constructor(preset) == preset # "permissive"

\* The names of the global scope the model follows: the denied names, a
\* utility function of the host and a name a script defines.
GlobalNames == {"eval", "Function", "fetch", "globalThis", "assert", "leak"}

\* What a name is bound to: "absent", the "builtin" function of QuickJS, the
\* "global" object itself, the thrower of the deny script ("denied"), the
\* thrower of the eval or Function script, which is neither writable nor
\* configurable ("disabled"), a "utility" function or a value of a "user".
\* A context is the properties of its global object and the properties of
\* the function object that stands in the place of globalThis once
\* globalThis is denied.
ContextFull ==
    [real |-> [n \in GlobalNames |->
                  CASE n \in {"eval", "Function"} -> "builtin"
                    [] n = "globalThis" -> "global"
                    [] OTHER -> "absent"],
     fake |-> [n \in GlobalNames |-> "absent"]]

\* The object the identifier globalThis names in a context.
GlobalThisOf(ctx) == IF ctx.real["globalThis"] = "global" THEN "real" ELSE "fake"

\* globalThis[name] = binding, which leaves a property that is not writable
\* as it is.
Assign(ctx, name, binding) ==
    IF ctx[GlobalThisOf(ctx)][name] = "disabled"
    THEN ctx
    ELSE [ctx EXCEPT ![GlobalThisOf(ctx)][name] = binding]

\* delete globalThis[name], which leaves a property that is not
\* configurable as it is.
Delete(ctx, name) ==
    IF ctx[GlobalThisOf(ctx)][name] = "disabled"
    THEN ctx
    ELSE [ctx EXCEPT ![GlobalThisOf(ctx)][name] = "absent"]

\* The deny script of one name: the thrower is assigned to globalThis[name]
\* and globalThis[name] is deleted; globalThis is looked up again at each
\* of the two.
deny_script(ctx, func_name) == Delete(Assign(ctx, func_name, "denied"), func_name)

\* The loop over denied_functions, in the order the HashSet hands them out.
RECURSIVE deny_all(_, _)
deny_all(ctx, order) ==
    IF order = << >> THEN ctx ELSE deny_all(deny_script(ctx, Head(order)), Tail(order))

\* The script for eval and the one for the Function constructor: an
\* assignment, then Object.defineProperty with writable and configurable
\* false.
disable_script(ctx, name) ==
    [ctx EXCEPT ![GlobalThisOf(ctx)][name] = "disabled"]

\* apply_security_policies of an engine with this preset whose HashSet
\* iterates in this order.
apply_security_policies(ctx, preset, order) ==
    LET denied == deny_all(ctx, order)
        no_eval == IF disable_eval(preset) THEN disable_script(denied, "eval") ELSE denied
    IN  IF disable_function_constructor(preset) THEN disable_script(no_eval, "Function") ELSE no_eval

\* The utility functions the host loads into the global scope before the
\* user's source.
load_utility_functions(ctx) == [ctx EXCEPT !.real["assert"] = "utility"]

\* The context execute_script hands to the user's source.
SandboxContext(preset, order) ==
    load_utility_functions(apply_security_policies(ContextFull, preset, order))

\* The messages of the errors the throwers raise.
AccessDeniedMessage(func_name) ==
    CASE func_name = "eval" -> "Access to 'eval' is denied for security reasons"
      [] func_name = "Function" -> "Access to 'Function' is denied for security reasons"
      [] func_name = "fetch" -> "Access to 'fetch' is denied for security reasons"
      [] func_name = "globalThis" -> "Access to 'globalThis' is denied for security reasons"
DisabledMessage(name) ==
    IF name = "eval"
    THEN "eval() is disabled for security reasons"
    ELSE "Function constructor is disabled for security reasons"

\* The sources the sandbox is called with.
ScriptCallsEval == "eval('1+1')"
ScriptCallsFunction == "Function('return 1')()"
ScriptPollutes == "globalThis.leak = 1; globalThis.assert = 0; globalThis.fetch = 0; 1"
ScriptProbesLeak == "typeof globalThis.leak"
ScriptProbesAssert == "typeof assert"
ScriptProbesFetch == "typeof fetch"
ScriptReturnsContext == "context"
SandboxScripts == {ScriptCallsEval, ScriptCallsFunction, ScriptPollutes, ScriptProbesLeak, ScriptProbesAssert, ScriptProbesFetch, ScriptReturnsContext}

\* The context_data the sandbox is called with: the values of the tests, an
\* object with a key named constructor and one with a key named __proto__.
EmptyContext == JsonObjectWith(<< >>)
ContextValues ==
    {JsonNull, JsonBool(TRUE), JsonNumber(1), JsonString("value"), JsonArray(0), JsonArray(3), EmptyContext,
     JsonObjectWith(<< << "test", JsonString("value") >> >>),
     JsonObjectWith(<< << "constructor", JsonObjectWith(<< << "name", JsonString("Date") >> >>) >> >>),
     JsonObjectWith(<< << "__proto__", JsonObjectWith(<< << "a", JsonNumber(1) >> >>) >> >>)}

\* The name obj.get("constructor") and then get("name") find on an object
\* written as a literal with these keys: the own property when there is
\* one, the one of Object.prototype otherwise.
ConstructorName(fields) ==
    LET own == SelectSeq(fields, LAMBDA f : f[1] = "constructor")
        names == IF own = << >> THEN << >> ELSE SelectSeq(own[1][2].fields, LAMBDA f : f[1] = "name")
    IN  CASE own = << >> -> "Object"
          [] own # << >> /\ own[1][2].kind # "Object" -> ""
          [] own # << >> /\ own[1][2].kind = "Object" /\ names = << >> -> "Object"
          [] own # << >> /\ own[1][2].kind = "Object" /\ names # << >> -> names[1][2].str

\* The value of the constant context: serde_json::to_string(context_data)
\* read by QuickJS as an expression.  In an object literal the key __proto__
\* sets the prototype and makes no property.
context_literal(v) ==
    CASE v.kind = "Null" -> JsNull
      [] v.kind = "Bool" -> JsBoolean(v.bool)
      [] v.kind = "Number" -> JsNumber(v.num)
      [] v.kind = "String" -> JsString(v.str)
      [] v.kind = "Array" -> JsArray(v.len)
      [] v.kind = "Object" ->
            LET props == SelectSeq(v.fields, LAMBDA f : f[1] # "__proto__")
            IN  [JsObject(Len(props)) EXCEPT !.props = props, !.ctor = ConstructorName(props)]

\* A call of the global function of this name, which returns this value
\* when the function is the one of QuickJS.
CallGlobal(ctx, name, value) ==
    CASE ctx.real[name] = "builtin" -> Returns(value)
      [] ctx.real[name] = "denied" -> Throws(AccessDeniedMessage(name))
      [] ctx.real[name] = "disabled" -> Throws(DisabledMessage(name))
      [] ctx.real[name] = "absent" -> Throws("ReferenceError: not defined")
      [] OTHER -> Throws("TypeError: not a function")

\* typeof of a binding.
TypeOf(binding) ==
    CASE binding = "absent" -> "undefined"
      [] binding = "user" -> "number"
      [] binding = "global" -> "object"
      [] OTHER -> "function"

\* ctx.eval of a source of the sandbox: how it goes and the context it
\* leaves.
SandboxEval(script, context_data, ctx) ==
    CASE script = ScriptReturnsContext -> [outcome |-> Returns(context_literal(context_data)), ctx |-> ctx]
      [] script = ScriptCallsEval -> [outcome |-> CallGlobal(ctx, "eval", JsNumber(2)), ctx |-> ctx]
      [] script = ScriptCallsFunction -> [outcome |-> CallGlobal(ctx, "Function", JsNumber(1)), ctx |-> ctx]
      [] script = ScriptPollutes ->
            [outcome |-> Returns(JsNumber(1)),
             ctx |-> Assign(Assign(Assign(ctx, "leak", "user"), "assert", "user"), "fetch", "user")]
      [] script = ScriptProbesLeak ->
            [outcome |-> Returns(JsString(TypeOf(ctx[GlobalThisOf(ctx)]["leak"]))), ctx |-> ctx]
      [] script = ScriptProbesAssert ->
            [outcome |-> Returns(JsString(TypeOf(ctx.real["assert"]))), ctx |-> ctx]
      [] script = ScriptProbesFetch ->
            [outcome |-> Returns(JsString(TypeOf(ctx.real["fetch"]))), ctx |-> ctx]

\* The ScriptResult of execute_script for a source of the sandbox that went
\* this way.
ScriptResultOf(outcome) ==
    IF outcome.does = "return" THEN ScriptResultOk(outcome.value) ELSE ScriptResultRaised

\* ScriptEngine::with_config: an engine with a preset; its HashSet of denied
\* names iterates in an order of its own.
with_config(preset, order) ==
    /\ sandbox.engines < MaxEngines
    /\ sandbox' = [sandbox EXCEPT
            !.engines = @ + 1, !.preset = preset, !.order = order,
            !.script = "", !.result = None, !.raised = "",
            !.policies = None, !.context = None,
            !.last = IF IsSome(sandbox.result)
                     THEN Some([preset |-> sandbox.preset, script |-> sandbox.script, context_data |-> sandbox.context_data, result |-> Unwrap(sandbox.result)])
                     ELSE @,
            !.sameEngine = FALSE]
    /\ UNCHANGED << enabled, ticking, stopped, heartbeats, jobs, calls, lastLoad,
                    checks, rows, updates, proc, cron, engine, monitors, captured, main, wallclock >>

\* The steps of execute_script from a context on: the user's source is
\* evaluated in it and the outcome becomes the ScriptResult.
SandboxCall(script, context_data, ctx, policies) ==
    LET e == SandboxEval(wrap_script_with_metadata(script).script, context_data, ctx)
    IN  /\ sandbox.engines > 0
        /\ sandbox.calls < MaxSandboxCalls
        /\ sandbox' = [sandbox EXCEPT
                !.calls = @ + 1, !.script = script, !.context_data = Some(context_data),
                !.policies = Some(policies), !.context = Some(e.ctx),
                !.raised = e.outcome.error,
                !.result = Some(ScriptResultOf(e.outcome)),
                !.last = IF IsSome(sandbox.result)
                         THEN Some([preset |-> sandbox.preset, script |-> sandbox.script, context_data |-> sandbox.context_data, result |-> Unwrap(sandbox.result)])
                         ELSE @,
                !.sameEngine = IsSome(sandbox.result)]
        /\ UNCHANGED << enabled, ticking, stopped, heartbeats, jobs, calls, lastLoad,
                        checks, rows, updates, proc, cron, engine, monitors, captured, main, wallclock >>

\* execute_script with the context of the engine's call before.
sandbox_execute_script_keeps_context(script, context_data) ==
    IF IsSome(sandbox.result)
    THEN SandboxCall(script, context_data, Unwrap(sandbox.context), Unwrap(sandbox.policies))
    ELSE SandboxCall(script, context_data, SandboxContext(sandbox.preset, sandbox.order),
                     apply_security_policies(ContextFull, sandbox.preset, sandbox.order))
\* execute_script on an engine: Context::full, the policies, the utility
\* functions, then the user's source.
sandbox_execute_script(script, context_data) ==
    SandboxCall(script, context_data, SandboxContext(sandbox.preset, sandbox.order),
                apply_security_policies(ContextFull, sandbox.preset, sandbox.order))

NextSandbox ==
    \/ \E preset \in Presets : \E order \in RowOrders(denied_functions(preset)) : with_config(preset, order)
    \/ \E script \in SandboxScripts, context_data \in ContextValues :
          /\ script # ScriptReturnsContext => context_data = EmptyContext
          /\ sandbox_execute_script(script, context_data)

SpecSandbox == Init /\ [][NextSandbox]_vars

\* ---------------------------------------------------------------- wall clock
\* The wall clock (Utc::now(), Date.now()) reaches the next second.
wall_second_passes ==
    /\ wallclock.now < WallClockStart + MaxElapsed
    /\ wallclock' = [wallclock EXCEPT !.now = @ + 1]
    /\ UNCHANGED << enabled, ticking, stopped, heartbeats, jobs, calls, lastLoad, checks, rows, updates, proc >>
    /\ UNCHANGED << cron, engine, sandbox, monitors, captured, main >>

\* execute_monitor_check of monitor m2 comes to request.send().
request_issued ==
    /\ wallclock.request.pc = "idle"
    /\ wallclock' = [wallclock EXCEPT !.request.pc = "sent", !.request.issued_at = Some(wallclock.now)]
    /\ UNCHANGED << enabled, ticking, stopped, heartbeats, jobs, calls, lastLoad, checks, rows, updates, proc >>
    /\ UNCHANGED << cron, engine, sandbox, monitors, captured, main >>

\* The result of an arm of the match, built when the arm is reached:
\* checked_at is Utc::now() at that moment.
Recorded(request, arm, now) == [request EXCEPT !.pc = "recorded", !.arm = arm, !.checked_at = Some(now)]

\* Ok(Ok(response)): the response has arrived, its body is read next.
response_observed ==
    /\ wallclock.request.pc = "sent"
    /\ wallclock.now - Unwrap(wallclock.request.issued_at) < MonitorRow("m2").timeout
    /\ wallclock' = [wallclock EXCEPT !.request.pc = "body"]
    /\ UNCHANGED << enabled, ticking, stopped, heartbeats, jobs, calls, lastLoad, checks, rows, updates, proc >>
    /\ UNCHANGED << cron, engine, sandbox, monitors, captured, main >>

\* response.text().await has returned and the result is built.
body_observed ==
    /\ wallclock.request.pc = "body"
    /\ wallclock' = [wallclock EXCEPT !.request = Recorded(@, "completed", wallclock.now)]
    /\ UNCHANGED << enabled, ticking, stopped, heartbeats, jobs, calls, lastLoad, checks, rows, updates, proc >>
    /\ UNCHANGED << cron, engine, sandbox, monitors, captured, main >>

\* Ok(Err(e)): the transport error has arrived and the result is built.
error_observed ==
    /\ wallclock.request.pc = "sent"
    /\ wallclock.now - Unwrap(wallclock.request.issued_at) < MonitorRow("m2").timeout
    /\ wallclock' = [wallclock EXCEPT !.request = Recorded(@, "error", wallclock.now)]
    /\ UNCHANGED << enabled, ticking, stopped, heartbeats, jobs, calls, lastLoad, checks, rows, updates, proc >>
    /\ UNCHANGED << cron, engine, sandbox, monitors, captured, main >>

\* Err(_): the ceiling of monitor.timeout seconds has passed and the result
\* is built.
timeout_observed ==
    /\ wallclock.request.pc = "sent"
    /\ wallclock.now - Unwrap(wallclock.request.issued_at) >= MonitorRow("m2").timeout
    /\ wallclock' = [wallclock EXCEPT !.request = Recorded(@, "timeout", wallclock.now)]
    /\ UNCHANGED << enabled, ticking, stopped, heartbeats, jobs, calls, lastLoad, checks, rows, updates, proc >>
    /\ UNCHANGED << cron, engine, sandbox, monitors, captured, main >>

\* Milliseconds execute_script has run when it sets __start_time.
SetupMillis == {0, 3}

\* execute_script takes start_time = Instant::now().
script_starts ==
    /\ wallclock.script.pc = "idle"
    /\ wallclock' = [wallclock EXCEPT !.script.pc = "setup", !.script.started_at = Some(wallclock.now)]
    /\ UNCHANGED << enabled, ticking, stopped, heartbeats, jobs, calls, lastLoad, checks, rows, updates, proc >>
    /\ UNCHANGED << cron, engine, sandbox, monitors, captured, main >>

\* global.set("__start_time", start_time.elapsed().as_millis() as f64) and
\* global.set("__timeout_ms", self.timeout.as_millis() as f64), then the
\* evaluation of the script begins.
script_globals_set(elapsed_ms) ==
    /\ wallclock.script.pc = "setup"
    /\ wallclock' = [wallclock EXCEPT !.script.pc = "running",
                                      !.script.start_time = Some(elapsed_ms),
                                      !.script.timeout_ms = Some(EngineTimeout * MsPerSecond)]
    /\ UNCHANGED << enabled, ticking, stopped, heartbeats, jobs, calls, lastLoad, checks, rows, updates, proc >>
    /\ UNCHANGED << cron, engine, sandbox, monitors, captured, main >>

\* The test of __checkTimeout: Date.now() - __start_time > __timeout_ms,
\* with Date.now() the milliseconds since 1970 of a wall clock on a whole
\* second, now * 1000.  For integers now * 1000 - s > t holds exactly when
\* now is above the whole part of (t + s) / 1000, which stays inside the
\* range of the numbers compared here.
CheckTimeoutThrows(now, start_time, timeout_ms) == now > (timeout_ms + start_time) \div MsPerSecond

\* The script calls __checkTimeout().
check_timeout_called ==
    /\ wallclock.script.pc = "running"
    /\ wallclock' = [wallclock EXCEPT
          !.script.pc = IF CheckTimeoutThrows(wallclock.now, Unwrap(wallclock.script.start_time), Unwrap(wallclock.script.timeout_ms))
                        THEN "thrown" ELSE "returned",
          !.script.called_at = Some(wallclock.now)]
    /\ UNCHANGED << enabled, ticking, stopped, heartbeats, jobs, calls, lastLoad, checks, rows, updates, proc >>
    /\ UNCHANGED << cron, engine, sandbox, monitors, captured, main >>

NextWallClock ==
    \/ wall_second_passes
    \/ request_issued
    \/ response_observed
    \/ body_observed
    \/ error_observed
    \/ timeout_observed
    \/ script_starts
    \/ \E elapsed_ms \in SetupMillis : script_globals_set(elapsed_ms)
    \/ check_timeout_called

SpecWallClock == InitRunning /\ [][NextWallClock]_vars

\* ---------------------------------------------------------------- claims
Built(c) == IsSome(c.result)
ResultOf(c) == Unwrap(c.result)
RowsOf(i) == {k \in DOMAIN rows : rows[k].id = i}

\* C1: every firing attempts exactly one insert into monitor_results: never
\* two, none after a failed insert, exactly one once execute_monitor_check
\* has returned; the attempted row has a status of the four verdicts, and
\* table monitor_results holds at most that one row of the firing.
C1_ExactlyOneInsertAttempt ==
    /\ \A i \in DOMAIN checks :
          LET c == checks[i]
          IN  /\ c.attempts <= 1
              /\ Returned(c) => c.attempts = 1
              /\ (c.attempts = 1) = Built(c)
              /\ Built(c) => ResultOf(c).status \in Statuses
              /\ Cardinality(RowsOf(i)) = (IF c.pc = "ok" THEN 1 ELSE 0)
    /\ \A k \in DOMAIN rows :
          /\ rows[k].id \in DOMAIN checks
          /\ rows[k] = ResultOf(checks[rows[k].id])

\* A firing whose insert failed has returned, next to one whose insert
\* succeeded.
C1_Witness ==
    \E i, j \in DOMAIN checks :
        /\ checks[i].pc = "err" /\ checks[i].attempts = 1
        /\ checks[j].pc = "ok" /\ Cardinality(RowsOf(j)) = 1

\* C2: for a monitor with a script whose request completed, the verdict of
\* the script decides the recorded status: pass gives success, fail gives
\* failure with the script's message as error_message.
C2_ScriptVerdictDecidesStatus ==
    \A i \in DOMAIN checks :
        LET c == checks[i]
        IN  (IsSome(c.monitor.script) /\ c.outcome = "completed"
                /\ c.bodyRead = "ok" /\ Built(c))
            => LET r == ResultOf(c)
                   v == execute_validation_script(
                            Unwrap(c.monitor.script),
                            ValidationContext(Unwrap(c.observed),
                                              Unwrap(r.response_body),
                                              r.response_time))
               IN  /\ r.status = (IF v.passed THEN "success" ELSE "failure")
                   /\ ~v.passed => r.error_message = Some(v.message)

\* C3: a check that has not yet attempted its result row has been waiting
\* for at most monitor.timeout seconds plus the grace, whether it waits for
\* the response or for the response body.
C3_AttemptWithinCeiling ==
    \A i \in DOMAIN checks :
        Waiting(checks[i])
            => checks[i].elapsed <= checks[i].monitor.timeout + Grace

\* C4: once stop() has returned, no step starts a check.
C4_NoFiringAfterStop ==
    [][stopped => Len(checks') = Len(checks)]_vars

\* stop() has returned on a scheduler that was started and holds check
\* jobs, with room left for a firing.
C4_Witness ==
    /\ stopped /\ proc = "running"
    /\ heartbeats > 0
    /\ \E m \in MonitorIds : jobs[m] > 0
    /\ Len(checks) < MaxChecks

\* C5: when stop() has returned no check is in flight any more, and the
\* process exits without cutting a check off.
C5_StopWaitsForInFlight ==
    /\ stopped => \A i \in DOMAIN checks : ~InFlight(checks[i])
    /\ proc = "exited" => \A i \in DOMAIN checks : checks[i].pc # "cancelled"

\* C6: after a load that returned Ok the scheduler holds exactly one check
\* job for each monitor the load read as enabled and none for another.
C6_OneJobPerEnabledMonitor ==
    lastLoad.result = "ok"
        => \A m \in MonitorIds : jobs[m] = (IF m \in lastLoad.rows THEN 1 ELSE 0)

\* C7: after a load, every enabled monitor it read whose own registration
\* does not fail has a job, whatever happened to the other monitors.
C7_FailedRegistrationIsSkipped ==
    \A m \in lastLoad.rows : CronValid(MonitorRow(m).interval) => jobs[m] >= 1

\* C8: a result built after the ceiling elapsed has status timeout, no
\* response_code, no response_body and the message "Request timeout"; a
\* result lacks response_code exactly for a timeout or a transport error.
C8_TimeoutResult ==
    \A i \in DOMAIN checks :
        LET c == checks[i]
        IN  Built(c)
            => LET r == ResultOf(c)
               IN  /\ c.outcome = "ceiling"
                        => /\ r.status = "timeout"
                           /\ r.response_code = None
                           /\ r.response_body = None
                           /\ r.error_message = Some("Request timeout")
                   /\ (r.response_code = None)
                        = (c.outcome \in {"ceiling", "transport_error"})
                   /\ (c.outcome = "completed") => r.response_code = c.observed

\* A timeout row and a row of a completed request are in the table.
C8_Witness ==
    \E k, l \in DOMAIN rows :
        /\ rows[k].status = "timeout"
        /\ checks[rows[k].id].outcome = "ceiling"
        /\ IsSome(rows[l].response_code)

\* C9: without a script, the result of a completed request is success when
\* the observed code equals expected_status and failure otherwise, and
\* response_code is the observed code.
C9_StatusFromExpectedStatus ==
    \A i \in DOMAIN checks :
        LET c == checks[i]
        IN  (c.monitor.script = None /\ c.outcome = "completed" /\ Built(c))
            => LET r == ResultOf(c)
               IN  /\ r.status = (IF Unwrap(c.observed) = c.monitor.expected_status
                                  THEN "success" ELSE "failure")
                   /\ r.response_code = c.observed

\* A success row and a failure row of a monitor without a script.
C9_Witness ==
    \E k, l \in DOMAIN rows :
        /\ checks[rows[k].id].monitor.script = None
        /\ checks[rows[l].id].monitor.script = None
        /\ rows[k].status = "success"
        /\ rows[k].response_code = Some(checks[rows[k].id].monitor.expected_status)
        /\ rows[l].status = "failure"
        /\ IsSome(rows[l].response_code)

\* C10: a result built after the body read failed has status error and
\* carries the reason as error_message.
C10_BodyReadFailureIsError ==
    \A i \in DOMAIN checks :
        LET c == checks[i]
        IN  (c.bodyRead = "failed" /\ Built(c))
            => /\ ResultOf(c).status = "error"
               /\ IsSome(ResultOf(c).error_message)

\* The validation script of a check raised on the response the check got.
ScriptRaised(c) ==
    /\ IsSome(c.monitor.script)
    /\ c.outcome = "completed" /\ c.bodyRead = "ok" /\ Built(c)
    /\ ~execute_script(Unwrap(c.monitor.script),
                       ValidationContext(Unwrap(c.observed),
                                         Unwrap(ResultOf(c).response_body),
                                         ResultOf(c).response_time)).success

\* C11: a result the executor builds carries an error_message exactly when
\* its status is error or timeout or the validation script raised.
C11_ErrorMessageIffErrorTimeoutOrRaised ==
    \A i \in DOMAIN checks :
        LET c == checks[i]
        IN  Built(c)
            => (IsSome(ResultOf(c).error_message)
                  = (ResultOf(c).status \in {"error", "timeout"} \/ ScriptRaised(c)))

\* The probe of a check failed: transport error, timeout or status mismatch.
ProbeFailed(c) ==
    \/ c.outcome \in {"transport_error", "ceiling"}
    \/ Built(c) /\ ResultOf(c).status = "failure"

\* C12: a failed probe becomes a MonitorResult that is handed to the insert,
\* and a check that returned Ok after it has its row in the table; a check
\* returns Err only from a failed insert of the result it built; and while
\* stop() has not been called the scheduler keeps ticking with every job it
\* had, whatever a check returned.
C12_FailedProbeIsRecorded ==
    /\ \A i \in DOMAIN checks :
          LET c == checks[i]
          IN  /\ c.outcome \in {"transport_error", "ceiling"} => Built(c)
              /\ (ProbeFailed(c) /\ c.pc = "ok")
                    => \E k \in RowsOf(i) :
                          rows[k].status \in {"error", "timeout", "failure"}
              /\ c.pc = "err"
                    => c.attempts = 1 /\ Built(c) /\ RowsOf(i) = {}
    /\ ~stopped => ticking /\ \A m \in lastLoad.rows : jobs[m] = 1

\* The first check failed its probe and returned Err from the insert; the
\* scheduler still ticks and a later firing of the same monitor has failed
\* its probe too and is recorded.
C12_Witness ==
    /\ Len(checks) = 2
    /\ checks[1].monitor.id = checks[2].monitor.id
    /\ checks[1].outcome = "ceiling" /\ checks[1].pc = "err"
    /\ checks[2].outcome = "transport_error" /\ checks[2].pc = "ok"
    /\ rows[1].status = "error"
    /\ ticking /\ ~stopped

\* C13: a firing of a monitor does not wait for the checks of that monitor
\* that are still in flight: whenever the scheduler ticks, holds a job of
\* the monitor and a firing is followed, the job can fire; and two checks of
\* one monitor that both returned Ok have each their own row.
C13_FiringsOfOneMonitorOverlap ==
    /\ \A m \in MonitorIds :
          (proc = "running" /\ ticking /\ jobs[m] > 0 /\ Len(checks) < MaxChecks)
              => ENABLED job_fires(m)
    /\ \A i, j \in DOMAIN checks :
          (i # j /\ checks[i].monitor.id = checks[j].monitor.id
               /\ checks[i].pc = "ok" /\ checks[j].pc = "ok")
              => /\ RowsOf(i) # {} /\ RowsOf(j) # {}
                 /\ RowsOf(i) \cap RowsOf(j) = {}

\* Two checks of the monitor whose timeout is greater than its interval
\* wait for their responses at the same time, the second fired one interval
\* after the first.
C13_Witness ==
    /\ Len(checks) = 2
    /\ checks[1].monitor.id = checks[2].monitor.id
    /\ checks[1].monitor.timeout > checks[1].monitor.interval
    /\ checks[1].pc = "send" /\ checks[1].elapsed = checks[1].monitor.interval
    /\ checks[2].pc = "send" /\ checks[2].elapsed = 0
    /\ ticking

\* C14: a check is started only for a monitor whose enabled flag is true at
\* the moment of the firing.
C14_OnlyEnabledMonitorsFire ==
    [][Len(checks') > Len(checks) => enabled[checks'[Len(checks')].monitor.id]]_vars

\* C15: a second call of start() registers nothing: the scheduler never
\* holds more than the one "0/30" job of the first call.
C15_SecondStartRegistersNothing ==
    heartbeats <= 1

\* C16: when a load has read a monitor whose interval is 60 or more, every
\* other monitor it read has its job all the same.
C16_LongIntervalStopsNoOther ==
    (\E m \in lastLoad.rows : MonitorRow(m).interval > CronMax)
        => \A o \in lastLoad.rows : MonitorRow(o).interval <= CronMax => jobs[o] >= 1

\* C17: the job of a monitor with interval N has run in a second s of the
\* minute, when the wall clock leaves s, exactly if s mod N = 0.
C17_FiresWhenSecondDivisible ==
    [][cron'.second # cron.second => (cron.fired = (cron.second % cron.interval = 0))]_vars

\* The job of a monitor with interval 7 has run in second 56, the last
\* multiple of 7 in the minute.
C17_Witness ==
    /\ cron.interval = 7
    /\ cron.second = 56
    /\ cron.fired

\* Truthiness of a script's return value as the validation rule words it:
\* false, null, 0, NaN, "", an empty array and undefined are not truthy,
\* every object is.
Truthy(value) ==
    CASE value.type = "undefined" -> FALSE
      [] value.type = "null" -> FALSE
      [] value.type = "boolean" -> value.bool
      [] value.type = "number" -> ~value.nan /\ value.num # 0
      [] value.type = "string" -> value.str # ""
      [] value.type = "array" -> value.len # 0
      [] value.type \in {"object", "function", "symbol"} -> TRUE

\* C18: a ValidationResult has passed = true exactly when the script did
\* not raise and the value it returned is truthy.
C18_PassedIffNoRaiseAndTruthy ==
    IsSome(engine.validation)
        => (Unwrap(engine.validation).passed
              = (EngineEval.does = "return" /\ Truthy(EngineEval.value)))

\* A ScriptResult with the fields of one of the two arms.
WellFormed(r) ==
    /\ r.success \in BOOLEAN
    /\ r.success => IsSome(r.result) /\ r.error = None
    /\ ~r.success => r.result = None /\ IsSome(r.error)

\* C19: a call of the engine that has not returned has been running for at
\* most the configured timeout plus the grace, no call ends in a panic, and
\* a call that returned Ok carries a well-formed ScriptResult.
C19_ReturnsWithinTimeout ==
    /\ engine.pc \in {"setup", "eval"} => engine.elapsed <= EngineTimeout + Grace
    /\ engine.pc # "panicked"
    /\ engine.pc = "Ok" => IsSome(engine.result) /\ WellFormed(Unwrap(engine.result))

\* C20: a ScriptResult has success = true exactly when the evaluation of
\* the user's script came back without raising; with success it carries a
\* result and no error, without success an error and no result.
C20_SuccessIffEvalCompleted ==
    IsSome(engine.result)
        => LET r == Unwrap(engine.result)
           IN  /\ r.success = (EngineEval.does = "return")
               /\ r.success => IsSome(r.result) /\ r.error = None
               /\ ~r.success => r.result = None /\ IsSome(r.error)

\* The engine returned the ScriptResult of a script that throws.
C20_Witness ==
    /\ engine.script = ScriptThrows
    /\ engine.pc = "Ok"
    /\ IsSome(engine.result)
    /\ ~Unwrap(engine.result).success
    /\ IsSome(Unwrap(engine.result).error)

\* The message of the error of a ScriptResult, "" when it has none.
ErrorMessageOf(r) == IF IsSome(r.error) THEN Unwrap(r.error).message ELSE ""
\* The ScriptResult of the sandbox call that has just returned.
SandboxResult == Unwrap(sandbox.result)

\* C21: on an engine whose policy has disable_eval = true a script that
\* calls eval yields success = false, and under the default policy the
\* error message of eval('1+1') is the one of the deny script, "Access to
\* 'eval' is denied ...".
C21_EvalCallFailsWithAccessDenied ==
    (IsSome(sandbox.result) /\ sandbox.script = ScriptCallsEval /\ disable_eval(sandbox.preset)) =>
        /\ ~SandboxResult.success
        /\ sandbox.preset = "default" => ErrorMessageOf(SandboxResult) = AccessDeniedMessage("eval")

\* C22: after apply_security_policies every name of denied_functions is
\* bound on the real global object to the thrower of the deny script, for
\* every order of the names and every preset.
C22_DeniedNamesBoundToThrower ==
    IsSome(sandbox.policies) =>
        \A x \in denied_functions(sandbox.preset) : Unwrap(sandbox.policies).real[x] = "denied"

\* C23: each call of execute_script runs in a context of its own: after a
\* call that defined a global, overwrote a utility function of the host and
\* overwrote a denied name, the next call on the same engine sees none of
\* the three.
C23_CallsShareNoGlobals ==
    (/\ IsSome(sandbox.result) /\ IsSome(sandbox.last) /\ sandbox.sameEngine
     /\ Unwrap(sandbox.last).script = ScriptPollutes) =>
        /\ sandbox.script = ScriptProbesLeak => SandboxResult.result = Some(JsonString("undefined"))
        /\ sandbox.script = ScriptProbesAssert => SandboxResult.result = Some(JsonString("function"))
        /\ sandbox.script = ScriptProbesFetch => SandboxResult.result = Some(JsonString("undefined"))
C23_Witness ==
    /\ IsSome(sandbox.result) /\ IsSome(sandbox.last) /\ sandbox.sameEngine
    /\ Unwrap(sandbox.last).script = ScriptPollutes
    /\ sandbox.script = ScriptProbesLeak
    /\ SandboxResult.result = Some(JsonString("undefined"))

\* The success flag of a ScriptResult with the kind of its value or of its
\* error.
Classification(r) ==
    [success |-> r.success,
     kind |-> IF r.success THEN Unwrap(r.result).kind ELSE Unwrap(r.error).type]

\* C25: two calls with the same source on engines built with the same
\* policy give the same success flag and the same classification.
C25_SamePolicySameOutcome ==
    (/\ IsSome(sandbox.result) /\ IsSome(sandbox.last)
     /\ Unwrap(sandbox.last).script = sandbox.script
     /\ Unwrap(sandbox.last).context_data = sandbox.context_data
     /\ Unwrap(sandbox.last).preset = sandbox.preset) =>
        Classification(Unwrap(sandbox.last).result) = Classification(SandboxResult)

\* Whether a source declares something with function, var, let or const.
Declares(script) == script \in {ScriptLoopsDeclared, ScriptSyntaxError, ScriptDestructures}

\* C27: wrap_script_with_metadata returns the source unchanged exactly when
\* the trimmed source has at most two lines and declares nothing with
\* function, var, let or const; every other source goes into the wrapper.
C27_VerbatimIffShortWithoutDeclaration ==
    engine.pc # "idle" =>
        (~wrap_script_with_metadata(engine.script).wrapped
            <=> (LineCount(engine.script) <= 2 /\ ~Declares(engine.script)))

\* C28: when the validation script raises an error, the validation has
\* passed = false and its message is the message of the raised error; for
\* assert(cond, msg) with cond false it is msg.
C28_MessageIsRaisedMessage ==
    (engine.pc = "Ok" /\ EngineEval.does = "throw") =>
        /\ ~Unwrap(engine.validation).passed
        /\ Unwrap(engine.validation).message = EngineEval.error

\* C29: a failure of the sandbox itself (the context cannot be created, the
\* policies or the utility functions cannot be installed, a value cannot
\* be converted) ends the call with a ScriptResult of success = false and a
\* validation of passed = false, never with Err.
C29_SandboxFailureIsAResult ==
    /\ engine.pc # "Err"
    /\ engine.pc = "Ok" => IsSome(engine.result) /\ IsSome(engine.validation)

\* The classes of the built-in errors that are followed.
ErrorClasses == {"Error", "TypeError"}

\* The host form the mapping table of the value bridge gives a value.
HostForm(value) ==
    CASE value.type = "undefined" -> JsonObject("undefined", 1)
      [] value.type = "null" -> JsonNull
      [] value.type = "boolean" -> JsonBool(value.bool)
      [] value.type = "number" /\ value.nan -> JsonObject("NaN", 1)
      [] value.type = "number" /\ value.inf -> JsonTagged("Infinity", << << "positive", JsonBool(value.bool) >> >>)
      [] value.type = "number" /\ ~value.nan /\ ~value.inf -> JsonNumber(value.num)
      [] value.type = "string" -> JsonString(value.str)
      [] value.type = "array" -> JsonArray(value.len)
      [] value.type = "function" -> JsonTagged("function", << << "name", JsonString(value.name) >> >>)
      [] value.type = "object" /\ value.ctor = "Date" -> JsonTagged("Date", << << "timestamp", JsonNumber(value.num) >> >>)
      [] value.type = "object" /\ value.ctor = "RegExp" -> JsonTagged("RegExp", << << "source", JsonString(value.str) >> >>)
      [] value.type = "object" /\ value.ctor \in ErrorClasses ->
            JsonTagged("Error", << << "name", JsonString(value.name) >>, << "message", JsonString(value.str) >> >>)
      [] value.type = "object" /\ value.ctor = "Object" -> [JsonObjectWith(value.props) EXCEPT !.len = value.len]
      [] value.type = "symbol" -> JsonTagged("symbol", << << "description", JsonString(value.str) >> >>)

\* C26: the result of a call whose script returned a value is the host form
\* of the mapping table for that value: the tagged objects carry the name
\* of the function, the millisecond timestamp of the Date, the source of
\* the RegExp, the message of the Error (of any built-in class) and the
\* description of the symbol.
C26_ResultIsHostForm ==
    (engine.pc = "Ok" /\ EngineEval.does = "return") =>
        Unwrap(engine.result).result = Some(HostForm(EngineEval.value))

\* C24: for every JSON value v, execute_script("context", v) succeeds and
\* its result is structurally equal to v.
C24_ContextRoundTrip ==
    (IsSome(sandbox.result) /\ sandbox.script = ScriptReturnsContext) =>
        /\ SandboxResult.success
        /\ SandboxResult.result = sandbox.context_data

\* C30: the response_time of a result is the elapsed milliseconds cut to an
\* i32 and is not negative, for every elapsed time the monitor's timeout
\* allows.
C30_ResponseTimeNotNegative ==
    \A i \in DOMAIN checks :
        IsSome(checks[i].result) => Unwrap(checks[i].result).response_time >= 0

\* C31: of two firings of one monitor the earlier one started its request
\* no later than the other, and their results are inserted in any order: a
\* later firing whose result is built can record it while the earlier one
\* has not recorded its own.
C31_StartsOrderedCompletionsNot ==
    \A i, j \in DOMAIN checks :
        (i < j /\ checks[i].monitor.id = checks[j].monitor.id) =>
            /\ (checks[i].pc = "send" /\ checks[j].pc = "send")
                  => checks[i].elapsed >= checks[j].elapsed
            /\ (proc = "running" /\ InFlight(checks[i]) /\ checks[j].pc = "insert")
                  => ENABLED insert_succeeds(j)

\* The row of a later firing of a monitor stands in monitor_results before
\* the row of an earlier firing of the same monitor.
C31_Witness ==
    \E i, j \in DOMAIN checks : \E k, l \in DOMAIN rows :
        /\ i < j /\ checks[i].monitor.id = checks[j].monitor.id
        /\ k < l /\ rows[k].id = j /\ rows[l].id = i

\* C40: the message of a ValidationResult is "Validation passed" only when
\* passed is true: a script that completes with a falsy result yields
\* passed = false with a message that does not say the validation passed.
C40_PassedMessageOnlyWhenPassed ==
    IsSome(engine.validation) =>
        (Unwrap(engine.validation).message = "Validation passed"
            => Unwrap(engine.validation).passed)

\* The type parse_error_message and its caller give a message: the first of
\* the three error names the message contains, runtime_error without one.
C35_TypeByMessage(message) ==
    IF contains(message, "SyntaxError") THEN "syntax_error"
    ELSE IF contains(message, "ReferenceError") THEN "reference_error"
    ELSE IF contains(message, "TypeError") THEN "type_error"
    ELSE "runtime_error"

\* C35: the error record of a failed execution has the type exception when
\* the engine reports only that an exception occurred, otherwise the type its
\* message decides (syntax_error, reference_error, type_error, else
\* runtime_error); every record other than exception carries message, a
\* script_preview of at most 10 numbered lines of the source, and a suggestion.
C35_ErrorRecordClassified ==
    (IsSome(engine.result) /\ IsSome(Unwrap(engine.result).error)) =>
        LET record == Unwrap(Unwrap(engine.result).error)
        IN  record.type # "exception" =>
                /\ record.type = C35_TypeByMessage(record.message)
                /\ {"message", "script_preview", "suggestion"} \subseteq DOMAIN record
                /\ Len(record.script_preview.lines) <= 10
                /\ \A i \in DOMAIN record.script_preview.lines : record.script_preview.lines[i] = i

\* C37: js_value_to_serde_value comes back for every value a script can
\* return, an array or object that contains itself included: the conversion
\* never descends until the stack is used up.
C37_ConversionTerminates == engine.pc # "overflowed"

\* C39: for an interval N in 1..59 the time between two consecutive runs of
\* the job never exceeds N seconds; it is N between runs of the same minute,
\* and from the last run of a minute to the first of the next it is shorter
\* than N exactly when N does not divide 60.
C39_GapAtMostInterval ==
    /\ IsSome(cron.since) => Unwrap(cron.since) <= cron.interval
    /\ IsSome(cron.gap) =>
          LET gap == Unwrap(cron.gap)
          IN  /\ gap.seconds <= cron.interval
              /\ ~gap.across => gap.seconds = cron.interval
              /\ gap.across => (gap.seconds < cron.interval <=> SecondsPerMinute % cron.interval # 0)

C39_Witness ==
    /\ IsSome(cron.gap)
    /\ Unwrap(cron.gap).across
    /\ Unwrap(cron.gap).seconds < cron.interval
    /\ cron.interval = 7

\* A headers value with an entry whose value is no string, or that is no
\* object at all.
C32_NoStringMapping(value) ==
    \/ value.kind # "Object"
    \/ \E i \in DOMAIN value.fields : value.fields[i][2].kind # "String"

\* C32: the request of a monitor whose method is no HTTP method token is a
\* GET, the request of a monitor whose headers value is no mapping of strings
\* to strings (one value that is no string is enough) carries no headers, and
\* the check of such a monitor goes on: while its request is out the
\* response can arrive, and the result built for it is the one inserted.
C32_BadMethodAndHeadersDegrade ==
    \A i \in DOMAIN checks :
        LET c == checks[i]
            degraded == \/ c.monitor.method \in {"", "BAD METHOD", "GET\n"}
                        \/ (IsSome(c.monitor.headers) /\ C32_NoStringMapping(Unwrap(c.monitor.headers)))
        IN  /\ c.monitor.method \in {"", "BAD METHOD", "GET\n"} => c.request.method = "GET"
            /\ c.monitor.method \in {"GET", "POST", "get", "PURGE"} => c.request.method = c.monitor.method
            /\ (IsSome(c.monitor.headers) /\ C32_NoStringMapping(Unwrap(c.monitor.headers)))
                  => c.request.headers = {}
            /\ (degraded /\ c.pc = "send" /\ c.elapsed < c.monitor.timeout)
                  => ENABLED (\E code \in Codes : send_completes(i, code))
            /\ (degraded /\ c.pc = "insert") => ENABLED insert_succeeds(i)
            /\ (degraded /\ c.pc = "ok")
                  => \E k \in DOMAIN rows : rows[k].id = i /\ rows[k].monitor_id = c.monitor.id

C32_Witness ==
    \E i \in DOMAIN checks : \E k \in DOMAIN rows :
        /\ checks[i].monitor.method = "BAD METHOD"
        /\ IsSome(checks[i].monitor.headers)
        /\ Len(Unwrap(checks[i].monitor.headers).fields) = 2
        /\ checks[i].request = [method |-> "GET", headers |-> {}]
        /\ rows[k].id = i

\* C38: the monitor_id of every result row is the id of a monitor whose row
\* had enabled = true when load_and_schedule_monitors read it, and every
\* check of a job works with the Monitor the load built from that row
\* (timeout, expected_status, method and the rest), whatever table monitors
\* holds since.
C38_ChecksUseCapturedMonitor ==
    /\ \A i \in DOMAIN checks :
          \E c \in captured[checks[i].monitor.id] : c.enabled /\ c.monitor = checks[i].monitor
    /\ \A k \in DOMAIN rows :
          /\ lastLoad.result # "none"
          /\ \E c \in captured[rows[k].monitor_id] : c.enabled
          /\ \E i \in DOMAIN checks : rows[k].id = i /\ checks[i].monitor.id = rows[k].monitor_id

C38_Witness ==
    \E k \in DOMAIN rows :
        /\ checks[rows[k].id].monitor # monitors[rows[k].monitor_id]
        /\ checks[rows[k].id].monitor = MonitorRow(rows[k].monitor_id)

\* C34: the process calls load_and_schedule_monitors only after start() has
\* returned Ok and stop() only after the interrupt; its exit code is 0
\* exactly when stop() returned Ok after an interrupt, and a failure of the
\* configuration, the database, the migrations, the start or the load of the
\* scheduler ends it with another code.
C34_MainOrderAndExitCode ==
    main.pc # "detached" =>
        /\ lastLoad.result # "none" => main.started
        /\ main.failed_at = Some("load") => main.started
        /\ stopped => main.interrupted
        /\ main.failed_at = Some("stop") => main.interrupted
        /\ proc = "exited" <=> main.pc = "exited"
        /\ main.pc = "exited" =>
              /\ IsSome(main.exit_code)
              /\ Unwrap(main.exit_code) = 0 <=> (stopped /\ main.interrupted)
              /\ IsSome(main.failed_at) => Unwrap(main.exit_code) # 0

C34_Witness ==
    /\ main.pc = "exited"
    /\ main.exit_code = Some(0)
    /\ lastLoad.result = "ok"
    /\ Len(checks) > 0

\* C33: checked_at of a recorded result is the wall-clock time at which the
\* request was issued, not the time at which the response, the transport
\* error or the timeout was observed.
C33_CheckedAtIsIssueTime ==
    wallclock.request.pc = "recorded" =>
        wallclock.request.checked_at = wallclock.request.issued_at

\* C36: __checkTimeout() throws only when more than the timeout of the
\* engine, in milliseconds, has passed since execute_script started; a call
\* right after the start of a script does not throw.
C36_ThrowsOnlyAfterTimeout ==
    wallclock.script.pc = "thrown" =>
        (Unwrap(wallclock.script.called_at) - Unwrap(wallclock.script.started_at)) * MsPerSecond
            > EngineTimeout * MsPerSecond

====
